---- MODULE Spec2Model ----
(***************************************************************************)
(* Model of the schema-inference / header-detection engine and of the SQL  *)
(* safety layer of nlp_analytics (backend/app).                            *)
(*                                                                         *)
(* Text is modelled as text: a Python str is a TLA+ string, read with Len, *)
(* SubSeq and \o, so that every rewrite (replace, strip, split, upper) is  *)
(* computed character by character as the Python code computes it.        *)
(*                                                                         *)
(* The specifications of the module:                                       *)
(*   SpecDDL      SchemaExtractor.extract_from_csv and the DDL generator    *)
(*   SpecQuery    the two natural-language query paths (main.py /query and *)
(*                QueryService.query_from_natural_language)                *)
(*   SpecHeader   CSVAnalyzer._detect_header_row                           *)
(*   SpecVarchar  SchemaExtractor._round_varchar_length                    *)
(*   SpecSanitize SchemaExtractor._sanitize_column_name                    *)
(*   SpecProfile  the column profiler, the column statistics and the       *)
(*                primary-key choice                                       *)
(*   SpecUpload   routers/upload.py upload_and_create_table                *)
(***************************************************************************)
EXTENDS Integers, Sequences, FiniteSets, TLC

VARIABLES
    ddlReq,     \* arguments of the last extract_from_csv call
    ddlRes,     \* the dict it returned
    qReq,       \* the natural-language query request being served
    qPc,        \* position of the query handler
    qSql,       \* the handler's current SQL text
    qSink,      \* statements the handler executed on its connection, in order
    qGen,       \* the generator calls made so far and the last response object
    qRes,       \* the response (or error) returned to the caller
    hLines,     \* preview lines handed to _detect_header_row
    hRes,       \* its result (row, confidence, reasoning, scores)
    fnArg,      \* argument of a helper function called on its own
    fnOut,      \* what the helper returned (or that it raised)
    pfReq,      \* a parsed frame handed to the profiler and the statistics
    pfRes,      \* the profiles, statistics and key choice computed from it
    upReq,      \* the upload requests being served, one per handler
    upPc,       \* position and local variables of each upload_and_create_table
    upDb,       \* the sink: the tables that exist, with their rows' origin
    upSink,     \* statements the uploads issued against the sink, in order
    upRes,      \* the response (or HTTP error) of each upload
    upProcs     \* how the handlers are run: in one event loop or in processes

vars == <<ddlReq, ddlRes, qReq, qPc, qSql, qSink, qGen, qRes, hLines, hRes,
          fnArg, fnOut, pfReq, pfRes, upReq, upPc, upDb, upSink, upRes, upProcs>>
fnVars == <<fnArg, fnOut>>
pfVars == <<pfReq, pfRes>>
upVars == <<upReq, upPc, upDb, upSink, upRes, upProcs>>
ddlVars == <<ddlReq, ddlRes>>
qVars == <<qReq, qPc, qSql, qSink, qGen, qRes>>
hVars == <<hLines, hRes>>

(***************************************************************************)
(* Python str operations                                                   *)
(***************************************************************************)
None == "__None__"   \* Python's None, a value no str equals (model values are strings)

LowerLetters == "abcdefghijklmnopqrstuvwxyz"
UpperLetters == "ABCDEFGHIJKLMNOPQRSTUVWXYZ"
Digits == "0123456789"
Whitespace == {" ", "\n", "\t", "\r"}

Char(s, i) == SubSeq(s, i, i)

\* position of the one-character string c in alphabet, 0 when absent
IndexIn(c, alphabet) ==
    IF \E i \in 1..Len(alphabet) : Char(alphabet, i) = c
    THEN CHOOSE i \in 1..Len(alphabet) : Char(alphabet, i) = c
    ELSE 0

IsDigitChar(c) == IndexIn(c, Digits) > 0
IsLetterChar(c) == IndexIn(c, LowerLetters) > 0 \/ IndexIn(c, UpperLetters) > 0
\* the regex class \w
IsWordChar(c) == IsLetterChar(c) \/ IsDigitChar(c) \/ c = "_"

UpperChar(c) ==
    LET i == IndexIn(c, LowerLetters) IN IF i > 0 THEN Char(UpperLetters, i) ELSE c
LowerChar(c) ==
    LET i == IndexIn(c, UpperLetters) IN IF i > 0 THEN Char(LowerLetters, i) ELSE c

DropFirst(s, n) == SubSeq(s, n + 1, Len(s))

RECURSIVE Upper(_)
Upper(s) ==
    IF s = "" THEN ""
    ELSE IF Len(s) = 1 THEN UpperChar(s)
    ELSE LET h == Len(s) \div 2
         IN  Upper(SubSeq(s, 1, h)) \o Upper(DropFirst(s, h))

RECURSIVE Lower(_)
Lower(s) ==
    IF s = "" THEN ""
    ELSE IF Len(s) = 1 THEN LowerChar(s)
    ELSE LET h == Len(s) \div 2
         IN  Lower(SubSeq(s, 1, h)) \o Lower(DropFirst(s, h))

StartsWith(s, p) == Len(p) <= Len(s) /\ SubSeq(s, 1, Len(p)) = p
EndsWith(s, p) == Len(p) <= Len(s) /\ SubSeq(s, Len(s) - Len(p) + 1, Len(s)) = p

\* p in s
Contains(s, p) ==
    \E i \in 1..(Len(s) - Len(p) + 1) : SubSeq(s, i, i + Len(p) - 1) = p

\* s.find(p) + 1: the first position of p in s, 0 when p is not in s
Find(s, p) ==
    IF Contains(s, p)
    THEN CHOOSE i \in 1..(Len(s) - Len(p) + 1) :
            /\ SubSeq(s, i, i + Len(p) - 1) = p
            /\ \A j \in 1..(i - 1) : SubSeq(s, j, j + Len(p) - 1) # p
    ELSE 0

\* s.replace(old, new), old non-empty: leftmost non-overlapping occurrences
RECURSIVE Replace(_, _, _)
Replace(s, old, new) ==
    LET i == Find(s, old)
    IN  IF i = 0 THEN s
        ELSE SubSeq(s, 1, i - 1) \o new
             \o Replace(DropFirst(s, i + Len(old) - 1), old, new)

\* s.count(p), p non-empty: non-overlapping occurrences
RECURSIVE Count(_, _)
Count(s, p) ==
    LET i == Find(s, p)
    IN  IF i = 0 THEN 0 ELSE 1 + Count(DropFirst(s, i + Len(p) - 1), p)

RECURSIVE LStrip(_)
LStrip(s) == IF s # "" /\ Head(s) \in Whitespace THEN LStrip(Tail(s)) ELSE s

RECURSIVE RStrip(_)
RStrip(s) ==
    IF s # "" /\ Char(s, Len(s)) \in Whitespace
    THEN RStrip(SubSeq(s, 1, Len(s) - 1)) ELSE s

\* s.strip()
Strip(s) == LStrip(RStrip(s))

\* s.rstrip(c) for a one-character c
RECURSIVE RStripChar(_, _)
RStripChar(s, c) ==
    IF s # "" /\ Char(s, Len(s)) = c
    THEN RStripChar(SubSeq(s, 1, Len(s) - 1), c) ELSE s

\* s.split(sep), sep non-empty: the list of pieces
RECURSIVE Split(_, _)
Split(s, sep) ==
    LET i == Find(s, sep) IN
    IF i = 0 THEN <<s>>
    ELSE <<SubSeq(s, 1, i - 1)>> \o Split(DropFirst(s, i + Len(sep) - 1), sep)

\* sep.join(parts)
RECURSIVE Join(_, _)
Join(parts, sep) ==
    IF parts = <<>> THEN ""
    ELSE IF Len(parts) = 1 THEN parts[1]
    ELSE parts[1] \o sep \o Join(Tail(parts), sep)

\* str(n) for n >= 0
RECURSIVE IntToStr(_)
IntToStr(n) ==
    IF n < 10 THEN Char(Digits, n + 1)
    ELSE IntToStr(n \div 10) \o Char(Digits, (n % 10) + 1)

\* re.sub(r'[^\w]', '_', s)
RECURSIVE SubNonWord(_)
SubNonWord(s) ==
    IF s = "" THEN ""
    ELSE IF Len(s) = 1 THEN (IF IsWordChar(s) THEN s ELSE "_")
    ELSE LET h == Len(s) \div 2
         IN  SubNonWord(SubSeq(s, 1, h)) \o SubNonWord(DropFirst(s, h))

(***************************************************************************)
(* SchemaExtractor (services/schema_extractor.py)                          *)
(***************************************************************************)
MaxCols == 2          \* columns of a modelled frame

\* df.columns after read_csv and str.strip(): pandas keeps the names distinct
\* ("a", "a.1"), apart from names that differ only in surrounding blanks
HeaderNames == {"A", "a", "id", "b c"}
SqlTypes == {"INTEGER", "VARCHAR"}
FileNames == {"his.csv", "1a.csv"}

sql_keywords == {"select", "from", "where", "table", "order", "group"}

\* filename.rsplit('.', 1)[0]
RECURSIVE RSplitDotHead(_)
RSplitDotHead(s) ==
    IF ~Contains(s, ".") THEN s
    ELSE IF Char(s, Len(s)) = "." THEN SubSeq(s, 1, Len(s) - 1)
    ELSE RSplitDotHead(SubSeq(s, 1, Len(s) - 1))

\* _sanitize_table_name; name[0] raises IndexError on an empty name
SanitizeTableNameRaises(filename) == RSplitDotHead(filename) = ""
SanitizeTableName(filename) ==
    LET name == Lower(SubNonWord(RSplitDotHead(filename))) IN
    IF IsDigitChar(Head(name)) THEN "table_" \o name ELSE name

\* _sanitize_column_name; name[0] raises IndexError on an empty name
SanitizeColumnNameRaises(name) == name = ""
SanitizeColumnName(name) ==
    LET n1 == Lower(SubNonWord(name))
        n2 == IF IsDigitChar(Head(n1)) THEN "col_" \o n1 ELSE n1
    IN  IF n2 \in sql_keywords THEN n2 \o "_col" ELSE n2

\* A frame column as _analyze_columns profiles it.  The profile's type,
\* length and nullability are carried by the frame column here; max_length 0
\* stands for None (both are falsy in col.get('max_length')).
AnalyzeColumns(df) ==
    [i \in 1..Len(df) |->
        [name |-> SanitizeColumnName(df[i].header),
         original_name |-> df[i].header,
         sql_type |-> df[i].sql_type,
         max_length |-> IF df[i].sql_type = "VARCHAR" THEN df[i].max_length ELSE 0,
         nullable |-> df[i].nullable]]

\* Python truthiness of an Optional[str]
Truthy(v) == v # None /\ v # ""

ColDef(col, primary_key) ==
    LET sql_type == IF col.sql_type = "VARCHAR" /\ col.max_length # 0
                    THEN "VARCHAR(" \o IntToStr(col.max_length) \o ")"
                    ELSE col.sql_type
    IN  col.name \o " " \o sql_type
        \o (IF ~col.nullable THEN " NOT NULL" ELSE "")
        \o (IF Truthy(primary_key) /\ col.name = primary_key THEN " PRIMARY KEY" ELSE "")

FkDef(fk) ==
    "FOREIGN KEY (" \o fk.column \o ") REFERENCES " \o fk.ref_table
        \o "(" \o fk.ref_column \o ")"

\* a generator that adds the synthetic key after the profiled columns
ColDefinitions_SyntheticIdLast(columns, primary_key, foreign_keys) ==
    [i \in 1..Len(columns) |-> ColDef(columns[i], primary_key)]
    \o (IF ~Truthy(primary_key) THEN <<"id SERIAL PRIMARY KEY">> ELSE <<>>)
    \o [i \in 1..Len(foreign_keys) |-> FkDef(foreign_keys[i])]

\* the col_definitions list of _generate_create_table_sql
ColDefinitions(columns, primary_key, foreign_keys) ==
    (IF ~Truthy(primary_key) THEN <<"id SERIAL PRIMARY KEY">> ELSE <<>>)
    \o [i \in 1..Len(columns) |-> ColDef(columns[i], primary_key)]
    \o [i \in 1..Len(foreign_keys) |-> FkDef(foreign_keys[i])]

GenerateCreateTableSql(table_name, columns, primary_key, foreign_keys) ==
    "CREATE TABLE IF NOT EXISTS " \o table_name \o " (\n    "
        \o Join(ColDefinitions(columns, primary_key, foreign_keys), ",\n    ")
        \o "\n);"

NoDdlResult ==
    [called |-> FALSE, success |-> FALSE, error |-> "", table_name |-> "",
     columns |-> <<>>, primary_key |-> None, foreign_keys |-> <<>>, create_sql |-> ""]

DdlFailure(msg) == [NoDdlResult EXCEPT !.called = TRUE, !.error = msg]

\* extract_from_csv on an already parsed frame df (read_csv, dropna and the
\* Unnamed filter have run)
ExtractFromCsvResult(df, filename, override_primary_key, override_foreign_keys) ==
    IF SanitizeTableNameRaises(filename)
       \/ \E i \in 1..Len(df) : SanitizeColumnNameRaises(df[i].header)
    THEN DdlFailure("string index out of range")
    ELSE
    LET table_name == SanitizeTableName(filename)
        columns == AnalyzeColumns(df)
        names == {columns[i].name : i \in 1..Len(columns)}
        foreign_keys == IF override_foreign_keys.given
                        THEN override_foreign_keys.list ELSE <<>>
    IN  IF override_primary_key # None /\ override_primary_key # ""
           /\ override_primary_key \notin names
        THEN DdlFailure("Primary key column '" \o override_primary_key \o "' not found")
        ELSE
        LET primary_key == override_primary_key IN
        [called |-> TRUE, success |-> TRUE, error |-> "",
         table_name |-> table_name, columns |-> columns,
         primary_key |-> primary_key, foreign_keys |-> foreign_keys,
         create_sql |-> GenerateCreateTableSql(table_name, columns, primary_key,
                                               foreign_keys)]

FrameColumns ==
    [header : HeaderNames \cup {""}, sql_type : SqlTypes, max_length : {50},
     nullable : BOOLEAN]

\* frames of 1..MaxCols columns with pairwise distinct headers
Frames ==
    UNION { {df \in [1..n -> FrameColumns] :
                \A i, j \in 1..n : i # j => df[i].header # df[j].header}
            : n \in 1..MaxCols }

FkOverrides ==
    { [given |-> FALSE, list |-> <<>>],
      [given |-> TRUE, list |-> <<>>],
      [given |-> TRUE,
       list |-> <<[column |-> "a", ref_table |-> "ris", ref_column |-> "id"]>>] }

PkOverrides == {None, "", "a", "id", "b_c", "zz"}

DdlRequests ==
    [df : Frames, filename : FileNames,
     override_primary_key : PkOverrides, override_foreign_keys : FkOverrides]

NoRequest ==
    [path |-> "none", raw |-> "", tables |-> <<>>, limit |-> 0, execute |-> FALSE,
     sink_ok |-> FALSE]
NoGen == [calls |-> 0, status |-> "none", last_error |-> ""]
NoResponse ==
    [kind |-> "none", http |-> 0, raised |-> 0, success |-> FALSE, sql |-> None,
     warnings |-> <<>>, original_query |-> None, raw_llm_response |-> None,
     executed |-> "absent", error |-> ""]

IdleQuery ==
    /\ qReq = NoRequest
    /\ qPc = "idle"
    /\ qSql = ""
    /\ qSink = <<>>
    /\ qGen = NoGen
    /\ qRes = NoResponse

IdleHeader ==
    /\ hLines = <<>>
    /\ hRes = [called |-> FALSE, row |-> 0, confidence15 |-> 0, reasoning |-> "",
               scores |-> <<>>]

NoFnOut == [called |-> FALSE]

IdleFn ==
    /\ fnArg = <<>>
    /\ fnOut = NoFnOut

NoProfileResult == [profiled |-> FALSE, counted |-> FALSE]

IdleProfile ==
    /\ pfReq = <<>>
    /\ pfRes = NoProfileResult

NoUploadResponse == [kind |-> "none", http |-> 0, detail |-> ""]

NoUploadLocals ==
    [at |-> "idle", schema_result |-> NoDdlResult, final_table_name |-> "",
     exists |-> FALSE]

\* the handlers that may serve an upload at the same time: one call of
\* upload_and_create_table per request; they share the database only
Uploads == {1, 2}

IdleUpload ==
    /\ upReq = [r \in Uploads |-> <<>>]
    /\ upPc = [r \in Uploads |-> NoUploadLocals]
    /\ upDb = {}
    /\ upSink = <<>>
    /\ upRes = [r \in Uploads |-> NoUploadResponse]
    /\ upProcs = "one event loop"

InitDDL ==
    /\ ddlReq \in DdlRequests
    /\ ddlRes = NoDdlResult
    /\ IdleQuery
    /\ IdleHeader
    /\ IdleFn
    /\ IdleProfile
    /\ IdleUpload

\* one call of schema_extractor.extract_from_csv
ExtractFromCsv ==
    /\ ~ddlRes.called
    /\ ddlRes' = ExtractFromCsvResult(ddlReq.df, ddlReq.filename,
                                      ddlReq.override_primary_key,
                                      ddlReq.override_foreign_keys)
    /\ UNCHANGED <<ddlReq, qVars, hVars, fnVars, pfVars, upVars>>

NextDDL == ExtractFromCsv

SpecDDL == InitDDL /\ [][NextDDL]_vars

(***************************************************************************)
(* SQL safety layer: main.py /query                                        *)
(***************************************************************************)
\* The code-fence markers.  A TLA+ string cannot hold a backquote, so the
\* character ~ stands for the backquote in every modelled text (no modelled
\* text holds a ~ of its own).
code_block_generic == "~~~"
code_block_sql == "~~~sql"

prefixes_to_remove ==
    <<"SQL Query:", "Here's the SQL query:", "The SQL query is:", "Query:", "SELECT">>

\* the loop over prefixes_to_remove, from prefix number i on
RECURSIVE RemovePrefixes(_, _)
RemovePrefixes(sql_text, i) ==
    IF i > Len(prefixes_to_remove) THEN sql_text
    ELSE LET prefix == prefixes_to_remove[i] IN
         IF StartsWith(Strip(sql_text), prefix) /\ prefix # "SELECT"
         THEN RemovePrefixes(Strip(DropFirst(Strip(sql_text), Len(prefix))), i + 1)
         ELSE RemovePrefixes(sql_text, i + 1)

\* the first element of parts whose strip() starts with SELECT, stripped;
\* None when there is none
RECURSIVE FirstSelectPart(_)
FirstSelectPart(parts) ==
    IF parts = <<>> THEN None
    ELSE IF StartsWith(Upper(Strip(parts[1])), "SELECT") THEN Strip(parts[1])
    ELSE FirstSelectPart(Tail(parts))

clean_sql_query(raw_text) ==
    LET original == Replace(Replace(raw_text, code_block_sql, ""), code_block_generic, "")
        stripped == RemovePrefixes(original, 1)
        readded == IF StartsWith(Upper(Strip(original)), "SELECT")
                      /\ ~StartsWith(Upper(Strip(stripped)), "SELECT")
                   THEN "SELECT " \o stripped ELSE stripped
        sql_text == Strip(RStripChar(readded, ";"))
        block == IF Contains(sql_text, "\n\n")
                 THEN FirstSelectPart(Split(sql_text, "\n\n")) ELSE None
        line == IF ~StartsWith(Upper(sql_text), "SELECT")
                THEN FirstSelectPart(Split(sql_text, "\n")) ELSE None
    IN  IF block # None THEN block
        ELSE IF line # None THEN line
        ELSE sql_text

\* the length of the match of \s* at the start of s
RECURSIVE SpanWs(_)
SpanWs(s) == IF s # "" /\ Head(s) \in Whitespace THEN 1 + SpanWs(Tail(s)) ELSE 0

\* the length of the match of his\.id\s*=\s*ris (IGNORECASE) at the start of s,
\* 0 when it does not match there
MatchHisIdEqRis(s) ==
    IF ~StartsWith(Lower(s), "his.id") THEN 0
    ELSE LET a == 6 + SpanWs(DropFirst(s, 6)) IN
         IF Char(DropFirst(s, a), 1) # "=" \/ Len(s) <= a THEN 0
         ELSE LET b == a + 1 + SpanWs(DropFirst(s, a + 1)) IN
              IF StartsWith(Lower(DropFirst(s, b)), "ris") THEN b + 3 ELSE 0

\* re.sub(r'his\.id\s*=\s*ris', 'his.bill_id = ris', s, flags=re.IGNORECASE)
RECURSIVE SubHisIdEqRis(_)
SubHisIdEqRis(s) ==
    LET starts == {i \in 1..Len(s) : MatchHisIdEqRis(DropFirst(s, i - 1)) > 0}
    IN  IF starts = {} THEN s
        ELSE LET i == CHOOSE k \in starts : \A j \in starts : k <= j
                 n == MatchHisIdEqRis(DropFirst(s, i - 1))
             IN  SubSeq(s, 1, i - 1) \o "his.bill_id = ris"
                 \o SubHisIdEqRis(DropFirst(s, i - 1 + n))

\* validate_and_fix_sql: (fixed_query, warnings)
validate_and_fix_sql(sql_query) ==
    LET U == Upper(sql_query)
        L == Lower(sql_query)
        inJoin == Contains(U, "JOIN ris ON")
        risFix == inJoin /\ (Contains(L, "ris.id")
                             \/ Contains(L, "ON his.bill_id = ris.id"))
        hisFix == inJoin /\ Contains(L, "his.id") /\ Contains(U, "JOIN")
        castFix == /\ \E col \in {"bill_id", "patient_id", "patient_mobile_no"} :
                         Contains(sql_query, col)
                   /\ (Contains(L, "::bigint") \/ Contains(L, "::integer"))
        q1 == IF risFix
              THEN Replace(Replace(sql_query, "ris.id", "ris.patient_id"),
                           "RIS.id", "ris.patient_id")
              ELSE sql_query
        q2 == IF hisFix THEN SubHisIdEqRis(q1) ELSE q1
        q3 == IF castFix
              THEN Replace(Replace(Replace(Replace(q2, "::bigint", ""), "::BIGINT", ""),
                                   "::integer", ""), "::INTEGER", "")
              ELSE q2
    IN  [fixed_query |-> q3,
         warnings |->
            (IF risFix
             THEN <<"Fixed: Changed 'ris.id' to 'ris.patient_id' in JOIN condition">>
             ELSE <<>>)
            \o (IF hisFix
                THEN <<"Fixed: Changed 'his.id' to 'his.bill_id' in JOIN condition">>
                ELSE <<>>)
            \o (IF castFix
                THEN <<"Removed incorrect type casting - these columns are TEXT type">>
                ELSE <<>>)]

(***************************************************************************)
(* SQL safety layer: OllamaService._extract_sql and QueryService            *)
(***************************************************************************)
\* OllamaService._extract_sql
extract_sql(response) ==
    LET inner == IF Contains(response, code_block_sql)
                 THEN Split(Split(response, code_block_sql)[2], code_block_generic)[1]
                 ELSE IF Contains(response, code_block_generic)
                 THEN Split(Split(response, code_block_generic)[2], code_block_generic)[1]
                 ELSE response
        sql == Strip(inner)
    IN  IF ~StartsWith(Upper(sql), "SELECT") THEN "SELECT " \o sql ELSE sql

\* a row cap that is appended whatever the text holds
inject_limit_Always(generated_sql, limit) ==
    RStripChar(generated_sql, ";") \o " LIMIT " \o IntToStr(limit) \o ";"

\* the row cap of query_from_natural_language; limit 0 stands for a falsy
\* limit (0 or None)
inject_limit(generated_sql, limit) ==
    IF limit # 0 /\ ~Contains(Upper(generated_sql), "LIMIT")
    THEN RStripChar(generated_sql, ";") \o " LIMIT " \o IntToStr(limit) \o ";"
    ELSE generated_sql

\* the replacements list of _fix_table_names_in_sql for one table
Replacements(actual_table) ==
    LET wrong_plural == actual_table \o "s"
        quoted == "\"" \o actual_table \o "\""
    IN  << <<"\"" \o wrong_plural \o "\"", quoted>>,
           <<" " \o wrong_plural \o " ", " " \o quoted \o " ">>,
           <<" " \o wrong_plural \o ";", " " \o quoted \o ";">>,
           <<"FROM " \o wrong_plural, "FROM " \o quoted>>,
           <<"JOIN " \o wrong_plural, "JOIN " \o quoted>> >>

RECURSIVE ApplyReplacements(_, _)
ApplyReplacements(sql, reps) ==
    IF reps = <<>> \/ sql = "" THEN sql
    ELSE ApplyReplacements(Replace(sql, reps[1][1], reps[1][2]), Tail(reps))

\* _fix_table_names_in_sql over inspector.get_table_names()
RECURSIVE fix_table_names_in_sql(_, _)
fix_table_names_in_sql(sql, actual_tables) ==
    IF actual_tables = <<>> \/ sql = "" THEN sql
    ELSE fix_table_names_in_sql(ApplyReplacements(sql, Replacements(actual_tables[1])),
                                Tail(actual_tables))

(***************************************************************************)
(* The two natural-language query handlers                                 *)
(***************************************************************************)
max_retries == 2
default_limit == 100

\* a statement executed on the handler's connection; generated tells the
\* statement built from the generator's text from the handler's own SET
SinkEntry(stmt, generated) == [stmt |-> stmt, generated |-> generated]

\* an HTTPException raised inside the try block of natural_language_query is
\* caught by its own "except Exception" clause and raised again as a 500
MainRaise(status, detail) ==
    [NoResponse EXCEPT !.kind = "error", !.raised = status, !.http = 500,
                       !.error = detail]

\* raise HTTPException from inside an except clause: it leaves the handler
MainRaiseFromHandler(status, detail) ==
    [NoResponse EXCEPT !.kind = "error", !.raised = status, !.http = status,
                       !.error = detail]

\* a gate that refuses only the empty text
MainRejects_OnlyEmpty(sql_query) == sql_query = ""

\* the SELECT gate of natural_language_query:
\* not sql_query or not sql_query.upper().startswith('SELECT')
MainRejects(sql_query) ==
    sql_query = "" \/ ~StartsWith(Upper(sql_query), "SELECT")

\* the SELECT gate of _execute_generated_query
ServiceRejects(sql) == ~StartsWith(Upper(Strip(sql)), "SELECT")

\* one pass of the retry loop of natural_language_query: one requests.post
MainCallOllama ==
    /\ qPc = "calling"
    /\ qReq.path = "main"
    /\ qGen.calls < max_retries
    /\ \E outcome \in {"ok", "bad_status", "timeout", "connection_error", "exception"} :
        LET attempt == qGen.calls
            last == attempt >= max_retries - 1
        IN  CASE outcome = "ok" ->
                    /\ qGen' = [calls |-> attempt + 1, status |-> "ok",
                                last_error |-> qGen.last_error]
                    /\ qPc' = "responded"
                    /\ UNCHANGED qRes
              [] outcome = "bad_status" ->
                    /\ qGen' = [calls |-> attempt + 1, status |-> "bad_status",
                                last_error |-> "Status 500"]
                    /\ qPc' = IF last THEN "responded" ELSE "calling"
                    /\ UNCHANGED qRes
              [] outcome = "exception" ->
                    /\ qGen' = [qGen EXCEPT !.calls = attempt + 1,
                                            !.last_error = "Unexpected error"]
                    /\ qPc' = IF last THEN "responded" ELSE "calling"
                    /\ UNCHANGED qRes
              [] outcome = "timeout" ->
                    /\ qGen' = [qGen EXCEPT !.calls = attempt + 1,
                                            !.last_error = "Timeout after 120 seconds"]
                    /\ qPc' = IF last THEN "done" ELSE "calling"
                    /\ qRes' = IF last
                               THEN MainRaise(504, "Ollama request timed out")
                               ELSE qRes
              [] outcome = "connection_error" ->
                    /\ qGen' = [qGen EXCEPT !.calls = attempt + 1,
                                            !.last_error = "Connection error"]
                    /\ qPc' = "done"
                    /\ qRes' = MainRaise(503, "Cannot connect to Ollama service")
    /\ UNCHANGED <<qReq, qSql, qSink, ddlVars, hVars, fnVars, pfVars, upVars>>

\* natural_language_query after the retry loop: the response checks,
\* clean_sql_query, the SELECT gate, validate_and_fix_sql and the execution
MainFinish ==
    /\ qPc = "responded"
    /\ qReq.path = "main"
    /\ qPc' = "done"
    /\ LET raw_response == Strip(qReq.raw)
           sql_query == clean_sql_query(raw_response)
           fixed == validate_and_fix_sql(sql_query)
       IN  IF qGen.status # "ok"
           THEN /\ qRes' = MainRaise(500, "Ollama error: " \o qGen.last_error)
                /\ UNCHANGED <<qSql, qSink>>
           ELSE IF raw_response = ""
           THEN /\ \E st \in {500, 400} :
                      qRes' = MainRaise(st, "LLM returned an empty response")
                /\ UNCHANGED <<qSql, qSink>>
           ELSE IF MainRejects(sql_query)
           THEN /\ qRes' = MainRaise(400, "Invalid SQL query generated")
                /\ qSql' = sql_query
                /\ UNCHANGED qSink
           ELSE /\ qSql' = fixed.fixed_query
                /\ qSink' = <<SinkEntry("SET statement_timeout = 30000", FALSE),
                              SinkEntry(fixed.fixed_query, TRUE)>>
                /\ qRes' = IF qReq.sink_ok
                           THEN [NoResponse EXCEPT
                                    !.kind = "ok", !.http = 200, !.success = TRUE,
                                    !.sql = fixed.fixed_query,
                                    !.warnings = fixed.warnings,
                                    !.original_query =
                                        IF fixed.warnings # <<>> THEN raw_response
                                        ELSE None]
                           ELSE MainRaiseFromHandler(400, "SQL Error")
    /\ UNCHANGED <<qReq, qGen, ddlVars, hVars, fnVars, pfVars, upVars>>

ServiceFailure(msg) ==
    [NoResponse EXCEPT !.kind = "error", !.success = FALSE, !.error = msg]

\* QueryService.query_from_natural_language, with ollama.generate_sql and
\* _execute_generated_query
ServiceQuery ==
    /\ qPc = "calling"
    /\ qReq.path = "service"
    /\ qPc' = "done"
    /\ \E generated \in BOOLEAN :
        LET sql == extract_sql(qReq.raw)
            generated_sql == inject_limit(sql, qReq.limit)
            response == [NoResponse EXCEPT
                            !.kind = "ok", !.success = TRUE, !.sql = generated_sql,
                            !.raw_llm_response = qReq.raw]
            fixed_sql == fix_table_names_in_sql(generated_sql, qReq.tables)
        IN  /\ qGen' = [qGen EXCEPT !.calls = IF qReq.tables = <<>> THEN 0 ELSE 1,
                                    !.status = IF generated THEN "ok" ELSE "exception"]
            /\ IF qReq.tables = <<>>
               THEN /\ qRes' = ServiceFailure("No tables found in database. Please upload CSV files first.")
                    /\ UNCHANGED <<qSql, qSink>>
               ELSE IF ~generated
               THEN /\ qRes' = ServiceFailure("Failed to generate SQL query")
                    /\ UNCHANGED <<qSql, qSink>>
               ELSE IF ~qReq.execute
               THEN /\ qRes' = response
                    /\ qSql' = generated_sql
                    /\ UNCHANGED qSink
               ELSE IF ServiceRejects(generated_sql)
               THEN /\ qRes' = [response EXCEPT
                                   !.executed = "false",
                                   !.error = "Only SELECT queries are allowed for safety"]
                    /\ qSql' = generated_sql
                    /\ UNCHANGED qSink
               ELSE /\ qSql' = fixed_sql
                    /\ qSink' = <<SinkEntry(fixed_sql, TRUE)>>
                    /\ qRes' = IF qReq.sink_ok
                               THEN [response EXCEPT !.executed = "true"]
                               ELSE [response EXCEPT
                                        !.executed = "false",
                                        !.error = "Query execution failed"]
    /\ UNCHANGED <<qReq, ddlVars, hVars, fnVars, pfVars, upVars>>

\* Generator completions.  SelectTexts are statements as a model writes them,
\* with and without the leading SELECT (the QueryService prompt ends in
\* SELECT); WrappedTexts add the fences, prefixes and commentary around one.
SelectVerbs == {"SELECT ", "select ", ""}
SelectLists == {"*", "bill_id::bigint", "credit_limit"}
TableRefs ==
    {"his", "hiss", "hissy", "\"hiss\"", "his s", "his JOIN ris ON his.id = ris.id"}
SelectTails == {"", ";", " LIMIT 5"}
SelectTexts ==
    {v \o l \o " FROM " \o t \o e :
        v \in SelectVerbs, l \in SelectLists, t \in TableRefs, e \in SelectTails}
OtherTexts == {"", "  ", "DROP TABLE his", "UPDATE his SET bill_id = 1"}
WrapPrefixes == {"~~~sql\n", "~~~\n", "SQL Query: ", "Here is the query:\n"}
WrapSuffixes == {"", ";", "\n~~~", "\n\nThis lists the rows", ";\n\nDROP TABLE his"}
WrappedTexts ==
    {p \o c \o e : p \in WrapPrefixes, c \in {"SELECT * FROM hiss", "DROP TABLE his"},
                   e \in WrapSuffixes}
RawTexts == SelectTexts \cup OtherTexts \cup WrappedTexts

\* inspector.get_table_names() of the sink
TableLists == {<<"his">>, <<"his", "ris">>, <<"his", "hiss">>}

QueryRequests ==
    {[NoRequest EXCEPT !.path = "main", !.raw = r, !.tables = <<"his", "ris">>,
                       !.sink_ok = ok] : r \in RawTexts, ok \in BOOLEAN}
    \cup
    {[path |-> "service", raw |-> r, tables |-> t, limit |-> n, execute |-> e,
      sink_ok |-> ok] :
        r \in RawTexts, t \in TableLists, n \in {default_limit, 0},
        e \in BOOLEAN, ok \in BOOLEAN}
    \cup
    {[NoRequest EXCEPT !.path = "service", !.raw = "SELECT 1",
                       !.limit = default_limit, !.execute = TRUE]}

IdleDDL ==
    /\ ddlReq = [df |-> <<>>, filename |-> "", override_primary_key |-> None,
                 override_foreign_keys |-> [given |-> FALSE, list |-> <<>>]]
    /\ ddlRes = NoDdlResult

InitQuery ==
    /\ qReq \in QueryRequests
    /\ qPc = "calling"
    /\ qSql = ""
    /\ qSink = <<>>
    /\ qGen = NoGen
    /\ qRes = NoResponse
    /\ IdleDDL
    /\ IdleHeader
    /\ IdleFn
    /\ IdleProfile
    /\ IdleUpload

NextQuery == MainCallOllama \/ MainFinish \/ ServiceQuery

SpecQuery == InitQuery /\ [][NextQuery]_vars

(***************************************************************************)
(* CSVAnalyzer._detect_header_row (services/csv_analyzer.py)               *)
(***************************************************************************)
MaxLines == 4         \* lines of a modelled preview

header_keywords ==
    <<"id", "name", "date", "time", "patient", "study", "bill",
      "account", "number", "code", "type", "status", "value",
      "amount", "total", "count", "age", "gender", "address">>

max_possible_score == 15

\* the number of leading characters of s that are not in stops
SpanUntil(s, stops) ==
    LET hits == {i \in 1..Len(s) : Char(s, i) \in stops}
    IN  IF hits = {} THEN Len(s)
        ELSE (CHOOSE i \in hits : \A j \in hits : i <= j) - 1

\* csv.reader([line]) with the excel dialect (the states of the reader in
\* _csv; a run of ordinary characters inside a field is taken in one step);
\* the result is [ok, row], ok = FALSE when the reader raises csv.Error
RECURSIVE CsvRead(_, _, _, _)
CsvRead(rest, state, field, row) ==
    IF rest = ""
    THEN [ok |-> TRUE,
          row |-> IF state \in {"START_RECORD", "EAT_CRNL"} THEN row
                  ELSE Append(row, field)]
    ELSE LET c == Head(rest)
             r == Tail(rest)
             nl == c \in {"\n", "\r"}
         IN  CASE state = "EAT_CRNL" ->
                    IF nl THEN CsvRead(r, "EAT_CRNL", "", row)
                    ELSE [ok |-> FALSE, row |-> <<>>]
               [] state = "START_RECORD" /\ nl -> CsvRead(r, "EAT_CRNL", "", row)
               [] state \in {"START_RECORD", "START_FIELD"} /\ ~nl ->
                    IF c = "\"" THEN CsvRead(r, "IN_QUOTED_FIELD", "", row)
                    ELSE IF c = "," THEN CsvRead(r, "START_FIELD", "", Append(row, ""))
                    ELSE CsvRead(r, "IN_FIELD", c, row)
               [] state = "START_FIELD" /\ nl ->
                    CsvRead(r, "EAT_CRNL", "", Append(row, ""))
               [] state = "IN_FIELD" ->
                    IF nl THEN CsvRead(r, "EAT_CRNL", "", Append(row, field))
                    ELSE IF c = "," THEN CsvRead(r, "START_FIELD", "", Append(row, field))
                    ELSE LET n == SpanUntil(rest, {",", "\n", "\r"})
                         IN  CsvRead(DropFirst(rest, n), "IN_FIELD",
                                     field \o SubSeq(rest, 1, n), row)
               [] state = "IN_QUOTED_FIELD" ->
                    IF c = "\"" THEN CsvRead(r, "QUOTE_IN_QUOTED_FIELD", field, row)
                    ELSE LET n == SpanUntil(rest, {"\""})
                         IN  CsvRead(DropFirst(rest, n), "IN_QUOTED_FIELD",
                                     field \o SubSeq(rest, 1, n), row)
               [] state = "QUOTE_IN_QUOTED_FIELD" ->
                    IF c = "\"" THEN CsvRead(r, "IN_QUOTED_FIELD", field \o c, row)
                    ELSE IF c = "," THEN CsvRead(r, "START_FIELD", "", Append(row, field))
                    ELSE IF nl THEN CsvRead(r, "EAT_CRNL", "", Append(row, field))
                    ELSE CsvRead(r, "IN_FIELD", field \o c, row)

CsvRow(line) == CsvRead(line, "START_RECORD", "", <<>>)

\* str.isdigit() on ASCII text
IsDigit(s) == s # "" /\ \A i \in 1..Len(s) : IsDigitChar(Char(s, i))

\* col.strip().replace(',', '').replace('.', '').replace('-', '').isdigit()
IsNumericCell(col) ==
    IsDigit(Replace(Replace(Replace(Strip(col), ",", ""), ".", ""), "-", ""))

HasKeyword(col) ==
    LET lower == Lower(col)
    IN  \E k \in 1..Len(header_keywords) : Contains(lower, header_keywords[k])

HasUnderscore(col) == Contains(col, "_")

\* lines[a:b] of Python (0-based, end exclusive) as a sequence
Slice(lines, a, b) ==
    IF a >= Len(lines) THEN <<>>
    ELSE SubSeq(lines, a + 1, IF b > Len(lines) THEN Len(lines) ELSE b)

\* no look-ahead: no following row is read
NextRows_NoLookAhead(lines, i, ncells) ==
    [raised |-> FALSE, parsed |-> 0, consistent |-> 0]

\* heuristic 5: [raised, parsed, consistent] for the line at 0-based index i
NextRows(lines, i, ncells) ==
    LET IsNonBlank(r) == Strip(r) # ""
        next_rows == SelectSeq(Slice(lines, i + 1, i + 5), IsNonBlank)
        raised == \E k \in 1..Len(next_rows) : ~CsvRow(next_rows[k]).ok
        consistent == Cardinality({k \in 1..Len(next_rows) :
                                     Len(CsvRow(next_rows[k]).row) = ncells})
    IN  [raised |-> raised, parsed |-> Len(next_rows), consistent |-> consistent]

\* the body of the loop of _detect_header_row for the line at 0-based index
\* i whose cells are row: the entry appended to scores
ScoreEntry(lines, i, row) ==
    LET keyword_matches == Cardinality({j \in 1..Len(row) : HasKeyword(row[j])})
        all_text == \A j \in 1..Len(row) : ~IsNumericCell(row[j])
        no_empty == \A j \in 1..Len(row) : Strip(row[j]) # ""
        underscore_count == Cardinality({j \in 1..Len(row) : HasUnderscore(row[j])})
        nx == NextRows(lines, i, Len(row))
        consistency == ~nx.raised /\ nx.parsed > 0 /\ nx.consistent * 10 >= nx.parsed * 8
        score == (IF keyword_matches > 0 THEN keyword_matches * 2 ELSE 0)
                 + (IF all_text THEN 3 ELSE 0)
                 + (IF no_empty THEN 2 ELSE 0)
                 + underscore_count
                 + (IF consistency THEN 3 ELSE 0)
                 - (IF i = 0 THEN 1 ELSE 0)
        reasons ==
            (IF keyword_matches > 0
             THEN <<IntToStr(keyword_matches) \o " header keywords found">> ELSE <<>>)
            \o (IF all_text THEN <<"All columns are text (not numbers)">> ELSE <<>>)
            \o (IF no_empty THEN <<"No empty columns">> ELSE <<>>)
            \o (IF underscore_count > 0
                THEN <<IntToStr(underscore_count) \o " columns with underscores">>
                ELSE <<>>)
            \o (IF consistency
                THEN <<"Consistent column count with next " \o IntToStr(nx.consistent)
                       \o " rows">>
                ELSE <<>>)
    IN  [row |-> i, score |-> score,
         \* confidence * max_possible_score, kept exact:
         \* min(100, (score / max_possible_score) * 100)
         confidence15 |-> IF score * 100 < 100 * max_possible_score
                          THEN score * 100 ELSE 100 * max_possible_score,
         reasons |-> reasons, column_count |-> Len(row)]

\* the line at 0-based index i gets an entry in scores
Eligible(lines, i) ==
    /\ Strip(lines[i + 1]) # ""
    /\ CsvRow(lines[i + 1]).ok
    /\ Len(CsvRow(lines[i + 1]).row) >= 2

\* the scores list after the loop, in iteration order
RECURSIVE ScoresFrom(_, _)
ScoresFrom(lines, i) ==
    IF i >= Len(lines) THEN <<>>
    ELSE (IF Eligible(lines, i)
          THEN <<ScoreEntry(lines, i, CsvRow(lines[i + 1]).row)>> ELSE <<>>)
         \o ScoresFrom(lines, i + 1)

\* insertion that puts an entry before the entries of equal score
InsertDesc_BeforeEqual(sorted, e) ==
    LET k == Cardinality({j \in 1..Len(sorted) : sorted[j].score > e.score})
    IN  SubSeq(sorted, 1, k) \o <<e>> \o SubSeq(sorted, k + 1, Len(sorted))

\* list.sort(key=score, reverse=True) is stable: an entry goes after every
\* earlier entry whose score is greater or equal
InsertDesc(sorted, e) ==
    LET k == Cardinality({j \in 1..Len(sorted) : sorted[j].score >= e.score})
    IN  SubSeq(sorted, 1, k) \o <<e>> \o SubSeq(sorted, k + 1, Len(sorted))

RECURSIVE SortDesc(_, _)
SortDesc(todo, sorted) ==
    IF todo = <<>> THEN sorted ELSE SortDesc(Tail(todo), InsertDesc(sorted, todo[1]))

NoHeaderResult ==
    [called |-> FALSE, row |-> 0, confidence15 |-> 0, reasoning |-> "", scores |-> <<>>]

\* _detect_header_row: (row_index, confidence, reasoning); scores is the
\* function's list before the sort
detect_header_row(lines) ==
    LET scores == ScoresFrom(lines, 0) IN
    IF scores = <<>>
    THEN [called |-> TRUE, row |-> 0, confidence15 |-> 50 * max_possible_score,
          reasoning |-> "No valid rows found, defaulting to row 0", scores |-> scores]
    ELSE LET best == SortDesc(scores, <<>>)[1] IN
         [called |-> TRUE, row |-> best.row, confidence15 |-> best.confidence15,
          reasoning |-> "Row " \o IntToStr(best.row) \o ": " \o Join(best.reasons, "; "),
          scores |-> scores]

\* Preview lines: a one-cell banner, two headers, two data rows, a blank line,
\* a text row of three cells, a row with an empty cell
PreviewLines ==
    {"Hospital Export", "bill_id,patient_name", "id,x", "101,John Doe", "7,MRI",
     "", "a,b,c", "x,,1"}

Previews == UNION { [1..n -> PreviewLines] : n \in 1..MaxLines }

InitHeader ==
    /\ hLines \in Previews
    /\ hRes = NoHeaderResult
    /\ IdleDDL
    /\ IdleQuery
    /\ IdleFn
    /\ IdleProfile
    /\ IdleUpload

\* one call of _detect_header_row
DetectHeaderRow ==
    /\ ~hRes.called
    /\ hRes' = detect_header_row(hLines)
    /\ UNCHANGED <<hLines, ddlVars, qVars, fnVars, pfVars, upVars>>

NextHeader == DetectHeaderRow

SpecHeader == InitHeader /\ [][NextHeader]_vars

(***************************************************************************)
(* _detect_header_row on longer previews of few kinds of line (SpecScore)  *)
(***************************************************************************)
MaxScoreLines == 6    \* lines of a preview whose scores are examined

\* a blank line, a header-like line of two cells, a data line of three cells
ScoreLines == {"", "bill_id,x", "1,2,3"}

ScorePreviews == UNION { [1..n -> ScoreLines] : n \in 1..MaxScoreLines }

InitScore ==
    /\ hLines \in ScorePreviews
    /\ hRes = NoHeaderResult
    /\ IdleDDL
    /\ IdleQuery
    /\ IdleFn
    /\ IdleProfile
    /\ IdleUpload

SpecScore == InitScore /\ [][NextHeader]_vars

(***************************************************************************)
(* SchemaExtractor._round_varchar_length on its own (SpecVarchar)          *)
(***************************************************************************)
MaxLength == 2100     \* longest observed string length of a modelled column

\* a ladder with a step that goes down
round_varchar_length_Dip(length) ==
    IF length <= 50 THEN 50
    ELSE IF length <= 100 THEN 100
    ELSE IF length <= 255 THEN 50
    ELSE IF length <= 500 THEN 500
    ELSE IF length <= 1000 THEN 1000
    ELSE 2000

round_varchar_length(length) ==
    IF length <= 50 THEN 50
    ELSE IF length <= 100 THEN 100
    ELSE IF length <= 255 THEN 255
    ELSE IF length <= 500 THEN 500
    ELSE IF length <= 1000 THEN 1000
    ELSE 2000

\* the definition _generate_create_table_sql emits for a VARCHAR column whose
\* longest value has the given length (_analyze_columns lines 186-189)
VarcharColDef(length) ==
    ColDef([name |-> "c", original_name |-> "c", sql_type |-> "VARCHAR",
            max_length |-> round_varchar_length(length), nullable |-> TRUE], None)

\* lengths next to every step of the ladder, compared with every length
LengthProbes ==
    {0, 1, 49, 50, 51, 99, 100, 101, 254, 255, 256, 499, 500, 501,
     999, 1000, 1001, 1999, 2000, 2001, MaxLength}

InitVarchar ==
    /\ fnArg \in [l1 : 0..MaxLength, l2 : LengthProbes]
    /\ fnOut = NoFnOut
    /\ IdleDDL
    /\ IdleQuery
    /\ IdleHeader
    /\ IdleProfile
    /\ IdleUpload

\* _round_varchar_length applied to both lengths, and the column definition
\* emitted for the first
RoundVarcharLength ==
    /\ ~fnOut.called
    /\ fnOut' = [called |-> TRUE,
                 r1 |-> round_varchar_length(fnArg.l1),
                 r2 |-> round_varchar_length(fnArg.l2),
                 col_def |-> VarcharColDef(fnArg.l1)]
    /\ UNCHANGED <<fnArg, ddlVars, qVars, hVars, pfVars, upVars>>

NextVarchar == RoundVarcharLength

SpecVarchar == InitVarchar /\ [][NextVarchar]_vars

(***************************************************************************)
(* SchemaExtractor._sanitize_column_name on its own (SpecSanitize)         *)
(***************************************************************************)
MaxNameLen == 3       \* characters of a modelled column header

NameChars == {"a", "A", "1", " ", "_"}

RECURSIVE NamesOfLen(_)
NamesOfLen(n) ==
    IF n = 0 THEN {""}
    ELSE {c \o w : c \in NameChars, w \in NamesOfLen(n - 1)}

\* headers: every text of up to MaxNameLen characters, the empty one included,
\* and reserved words in several letter cases
ColumnNames ==
    UNION {NamesOfLen(n) : n \in 0..MaxNameLen}
    \cup {"select", "SELECT", "From", "where", "TABLE", "Order", "group",
          "select_col", "1select", "patient id"}

NoSanitizeOut == [called |-> TRUE, raised |-> TRUE, once |-> "", twice |-> ""]

InitSanitize ==
    /\ fnArg \in ColumnNames
    /\ fnOut = NoFnOut
    /\ IdleDDL
    /\ IdleQuery
    /\ IdleHeader
    /\ IdleProfile
    /\ IdleUpload

\* _sanitize_column_name(name), and _sanitize_column_name of its result
SanitizeColumnNameTwice ==
    /\ ~fnOut.called
    /\ fnOut' = IF SanitizeColumnNameRaises(fnArg) THEN NoSanitizeOut
                ELSE LET once == SanitizeColumnName(fnArg) IN
                     IF SanitizeColumnNameRaises(once)
                     THEN [NoSanitizeOut EXCEPT !.once = once]
                     ELSE [called |-> TRUE, raised |-> FALSE, once |-> once,
                           twice |-> SanitizeColumnName(once)]
    /\ UNCHANGED <<fnArg, ddlVars, qVars, hVars, pfVars, upVars>>

NextSanitize == SanitizeColumnNameTwice

SpecSanitize == InitSanitize /\ [][NextSanitize]_vars

(***************************************************************************)
(* The column profiler (SchemaExtractor._analyze_columns,                  *)
(* _detect_column_type, _detect_primary_key) and the column statistics of  *)
(* routers/upload.py get_column_statistics (SpecProfile)                   *)
(***************************************************************************)
MaxRows == 2          \* rows of a modelled frame

\* 2147483647, in the form of the numbers below
int32_max == [hi |-> 2, lo |-> 147483647]

\* A cell of the parsed frame: NaN, a number or a text.  A number is kept
\* exactly as sign, whole part hi * 10^9 + lo and tenths frac (so 2.5 has
\* lo 2, frac 5), which keeps values beyond 32 bits exact.  inf cells, which
\* the code turns into NaN first, are not modelled.
NullCell == [kind |-> "null", neg |-> FALSE, hi |-> 0, lo |-> 0, frac |-> 0, s |-> ""]
NumCell(neg, hi, lo, frac) ==
    [kind |-> "num", neg |-> neg, hi |-> hi, lo |-> lo, frac |-> frac, s |-> ""]
StrCell(s) == [kind |-> "str", neg |-> FALSE, hi |-> 0, lo |-> 0, frac |-> 0, s |-> s]

\* missing, 1, 3000000000, -3000000000, 2.5 and a text
CellValues ==
    {NullCell, NumCell(FALSE, 0, 1, 0), NumCell(FALSE, 3, 0, 0),
     NumCell(TRUE, 3, 0, 0), NumCell(FALSE, 0, 2, 5), StrCell("x")}

IsNull(c) == c.kind = "null"
NonNull(values) == SelectSeq(values, LAMBDA c : ~IsNull(c))
\* value % 1 == 0
IsIntegral(c) == c.frac = 0

\* |a| < |b|
MagLess(a, b) ==
    \/ a.hi < b.hi
    \/ a.hi = b.hi /\ a.lo < b.lo
    \/ a.hi = b.hi /\ a.lo = b.lo /\ a.frac < b.frac

\* a < b
NumLess(a, b) ==
    IF a.neg /\ ~b.neg THEN TRUE
    ELSE IF ~a.neg /\ b.neg THEN FALSE
    ELSE IF a.neg THEN MagLess(b, a) ELSE MagLess(a, b)

\* abs(value) > 2147483647
AbsExceedsInt32(c) ==
    MagLess([hi |-> int32_max.hi, lo |-> int32_max.lo, frac |-> 0], c)

\* series.max() of a numeric series with at least one number (NaN is skipped)
RECURSIVE MaxOf(_)
MaxOf(values) ==
    IF Len(values) = 1 THEN values[1]
    ELSE LET m == MaxOf(Tail(values)) IN IF NumLess(m, values[1]) THEN values[1] ELSE m

\* the dtype pd.read_csv gives the column: int64 for whole numbers without a
\* missing cell, float64 for numbers with a fraction or a missing cell (and
\* for a column of missing cells only), object when a cell is text and for a
\* frame without rows
Dtype(values) ==
    IF Len(values) = 0 \/ \E i \in 1..Len(values) : values[i].kind = "str"
    THEN "object"
    ELSE IF \A i \in 1..Len(values) : values[i].kind = "num" /\ IsIntegral(values[i])
    THEN "int64"
    ELSE "float64"

\* _detect_column_type.  An object column of the model is empty (to_datetime
\* of no values returns without raising: DATE) or holds the text "x", which
\* is neither a date nor a number, so both attempts raise: VARCHAR.
detect_column_type(values) ==
    LET pandas_type == Dtype(values)
        nums == NonNull(values)
    IN  CASE pandas_type = "object" ->
                IF Len(values) = 0 THEN "DATE" ELSE "VARCHAR"
          [] pandas_type = "int64" ->
                IF AbsExceedsInt32(MaxOf(values)) THEN "BIGINT" ELSE "INTEGER"
          [] pandas_type = "float64" ->
                IF /\ \A i \in 1..Len(nums) : IsIntegral(nums[i])
                   /\ Len(nums) > 0
                   /\ AbsExceedsInt32(MaxOf(nums))
                THEN "BIGINT" ELSE "FLOAT"

\* str(value) of a cell of an object column, where read_csv keeps the text of
\* the file; NaN prints as nan
CellText(c) ==
    CASE c.kind = "null" -> "nan"
      [] c.kind = "str" -> c.s
      [] c.kind = "num" ->
            LET lo == IntToStr(c.lo) IN
            (IF c.neg THEN "-" ELSE "")
            \o (IF c.hi > 0
                THEN IntToStr(c.hi) \o SubSeq("000000000", 1, 9 - Len(lo)) \o lo
                ELSE lo)
            \o (IF IsIntegral(c) THEN "" ELSE "." \o IntToStr(c.frac))

\* int(clean_column.astype(str).str.len().max()) of a column with rows
RECURSIVE MaxStrLen(_)
MaxStrLen(values) ==
    IF Len(values) = 0 THEN 0
    ELSE LET m == MaxStrLen(Tail(values))
             n == Len(CellText(values[1]))
         IN  IF n > m THEN n ELSE m

\* clean_column.nunique(): the distinct values that are not missing
NUnique(values) == Cardinality({values[i] : i \in 1..Len(values)} \ {NullCell})
NullCount(values) == Cardinality({i \in 1..Len(values) : IsNull(values[i])})

\* the column as ExtractFromCsvResult reads it: header, type, length, nulls
ProfiledColumn(col) ==
    LET sql_type == detect_column_type(col.values) IN
    [header |-> col.header,
     sql_type |-> sql_type,
     max_length |-> IF sql_type = "VARCHAR"
                    THEN round_varchar_length(MaxStrLen(col.values)) ELSE 0,
     nullable |-> NullCount(col.values) > 0]

ProfiledFrame(frame) == [i \in 1..Len(frame) |-> ProfiledColumn(frame[i])]

\* len(df)
FrameRows(frame) == Len(frame[1].values)

\* the dictionaries of _analyze_columns, counts included
ColumnProfiles(frame) ==
    LET columns == AnalyzeColumns(ProfiledFrame(frame)) IN
    [i \in 1..Len(frame) |->
        columns[i] @@
        [null_count |-> NullCount(frame[i].values),
         unique |-> NUnique(frame[i].values) = FrameRows(frame),
         unique_count |-> NUnique(frame[i].values)]]

\* the name of the first column whose index is in matching, None when
\* matching is empty
FirstColumn(columns, matching) ==
    IF matching # {}
    THEN columns[CHOOSE i \in matching : \A j \in matching : i <= j].name
    ELSE None

\* _detect_primary_key
detect_primary_key(columns) ==
    LET cols == 1..Len(columns)
        named_id == {i \in cols : Lower(columns[i].name) = "id" /\ columns[i].unique}
        unique_integer == {i \in cols : /\ columns[i].unique
                                        /\ ~columns[i].nullable
                                        /\ columns[i].sql_type = "INTEGER"}
        unique_any == {i \in cols : columns[i].unique /\ ~columns[i].nullable}
    IN  IF named_id # {} THEN FirstColumn(columns, named_id)
        ELSE IF unique_integer # {} THEN FirstColumn(columns, unique_integer)
        ELSE FirstColumn(columns, unique_any)

\* one entry of column_stats of get_column_statistics
ColumnStats(col) ==
    LET total_rows == Len(col.values)
        unique_count == NUnique(col.values)
        null_count == NullCount(col.values)
        non_null_count == total_rows - null_count
        is_unique == unique_count = non_null_count
        has_nulls == null_count > 0
    IN  [name |-> col.header, total_rows |-> total_rows,
         unique_count |-> unique_count, null_count |-> null_count,
         non_null_count |-> non_null_count, is_unique |-> is_unique,
         has_nulls |-> has_nulls, suitable_for_pk |-> is_unique /\ ~has_nulls]

ProfileHeaders == {<<"a", "id">>, <<"a", "b">>}

\* the frame with headers h and the cells v[column][row]
FrameOf(h, v) == [i \in 1..Len(h) |-> [header |-> h[i], values |-> v[i]]]

\* after dropna(how='all') no row of the frame holds missing cells only
NoEmptyRow(frame) ==
    \A r \in 1..Len(frame[1].values) : \E i \in 1..Len(frame) : ~IsNull(frame[i].values[r])

\* a frame after read_csv and dropna(how='all'), of 0..MaxRows rows
InitProfile ==
    /\ \E h \in ProfileHeaders, n \in 0..MaxRows :
         \E v \in [1..Len(h) -> [1..n -> CellValues]] :
            /\ NoEmptyRow(FrameOf(h, v))
            /\ pfReq = FrameOf(h, v)
    /\ pfRes = NoProfileResult
    /\ IdleDDL
    /\ IdleQuery
    /\ IdleHeader
    /\ IdleFn
    /\ IdleUpload

\* extract_from_csv without overrides on the frame, with the key that
\* _detect_primary_key returns for its columns
ProfileFrame ==
    /\ ~pfRes.profiled
    /\ LET res == ExtractFromCsvResult(ProfiledFrame(pfReq), "his.csv", None,
                                       [given |-> FALSE, list |-> <<>>])
           columns == ColumnProfiles(pfReq)
       IN  pfRes' = [profiled |-> TRUE, counted |-> FALSE,
                     row_count |-> FrameRows(pfReq),
                     columns |-> columns,
                     primary_key |-> res.primary_key,
                     create_sql |-> res.create_sql,
                     detected_key |-> detect_primary_key(columns)]
    /\ UNCHANGED <<pfReq, ddlVars, qVars, hVars, fnVars, upVars>>

\* get_column_statistics on the same frame
ColumnStatistics ==
    /\ pfRes.profiled
    /\ ~pfRes.counted
    /\ pfRes' = [pfRes EXCEPT !.counted = TRUE] @@
                [column_stats |-> [i \in 1..Len(pfReq) |-> ColumnStats(pfReq[i])]]
    /\ UNCHANGED <<pfReq, ddlVars, qVars, hVars, fnVars, upVars>>

NextProfile == ProfileFrame \/ ColumnStatistics

SpecProfile == InitProfile /\ [][NextProfile]_vars

(***************************************************************************)
(* routers/upload.py upload_and_create_table with DataLoader (SpecUpload,  *)
(* one request; SpecConcurrent, two requests at the same time)             *)
(***************************************************************************)
\* the mapping of the primary_key form field to override_primary_key
OverridePk(primary_key) ==
    IF primary_key = None \/ primary_key = "" THEN None
    ELSE IF Upper(primary_key) \in {"__AUTO__", "__NONE__", "NONE", ""}
         THEN IF Contains(Upper(primary_key), "__NONE__") \/ Upper(primary_key) = "NONE"
              THEN "" ELSE None
    ELSE primary_key

\* DataLoader._sanitize_column_name (no reserved-word suffix); name[0] raises
\* IndexError on an empty name
LoaderSanitizeColumnName(name) ==
    LET n1 == Lower(SubNonWord(name))
    IN  IF IsDigitChar(Head(n1)) THEN "col_" \o n1 ELSE n1

UploadError(status, detail) == [kind |-> "error", http |-> status, detail |-> detail]

\* a statement handler r issued against the sink; columns are the columns of
\* an INSERT
UploadStmt(r, op, table, stmt, columns) ==
    [by |-> r, op |-> op, table |-> table, stmt |-> stmt, columns |-> columns]

\* the table a CREATE TABLE of the schema result makes: its column names, no
\* rows yet
CreatedTable(name, schema_result) ==
    [name |-> name,
     columns |-> (IF ~Truthy(schema_result.primary_key) THEN {"id"} ELSE {})
                 \cup {schema_result.columns[i].name :
                          i \in 1..Len(schema_result.columns)},
     rows |-> {}]

\* the sink refuses a CREATE TABLE that names a column twice
CreateIsValid(schema_result) ==
    LET names == (IF ~Truthy(schema_result.primary_key) THEN <<"id">> ELSE <<>>)
                 \o [i \in 1..Len(schema_result.columns) |->
                        schema_result.columns[i].name]
    IN  \A i, j \in 1..Len(names) : i # j => names[i] # names[j]

TableNames(db) == {t.name : t \in db}

\* table_exists(table_name)
table_exists(db, table_name) == table_name \in TableNames(db)

UploadFiles ==
    { [filename |-> "his.csv",
       df |-> <<[header |-> "a", sql_type |-> "INTEGER", max_length |-> 0,
                 nullable |-> FALSE]>>],
      [filename |-> "his.csv",
       df |-> <<[header |-> "A b", sql_type |-> "VARCHAR", max_length |-> 50,
                 nullable |-> TRUE],
                [header |-> "id", sql_type |-> "INTEGER", max_length |-> 0,
                 nullable |-> FALSE]>>],
      [filename |-> "his.csv",
       df |-> <<[header |-> "a", sql_type |-> "INTEGER", max_length |-> 0,
                 nullable |-> FALSE],
                [header |-> "Order", sql_type |-> "VARCHAR", max_length |-> 50,
                 nullable |-> TRUE]>>],
      [filename |-> "his.txt",
       df |-> <<[header |-> "a", sql_type |-> "INTEGER", max_length |-> 0,
                 nullable |-> FALSE]>>] }

\* values of the primary_key form field
PrimaryKeyFields == {None, "", "__NONE__", "a", "a_b", "A b", "zz"}

UploadRequests ==
    [file : UploadFiles, table_name : {None, "t2"},
     if_exists : {"fail", "replace", "append"},
     primary_key : PrimaryKeyFields,
     create_ok : BOOLEAN, load_ok : BOOLEAN]

\* the table of an earlier upload, with its rows
OldTable(name) == [name |-> name, columns |-> {"id", "a"}, rows |-> {"old"}]

\* the tables the sink may hold before the request
ExistingTables == {OldTable("his"), OldTable("t2")}

\* the rows handler r loads from its file
RowsOf(r) == IF r = 1 THEN "rows of upload 1" ELSE "rows of upload 2"

\* one request, served by handler 1
InitUpload ==
    /\ \E req \in UploadRequests : upReq = [r \in Uploads |-> IF r = 1 THEN req ELSE <<>>]
    /\ upPc = [r \in Uploads |->
                  IF r = 1 THEN [NoUploadLocals EXCEPT !.at = "start"]
                  ELSE NoUploadLocals]
    /\ upDb \in SUBSET ExistingTables
    /\ upSink = <<>>
    /\ upRes = [r \in Uploads |-> NoUploadResponse]
    /\ upProcs = "one event loop"
    /\ IdleDDL
    /\ IdleQuery
    /\ IdleHeader
    /\ IdleFn
    /\ IdleProfile

ExtractionFailed_Never(schema_result) == FALSE

\* if not schema_result['success'] (line 132)
ExtractionFailed(schema_result) == ~schema_result.success

\* upload_and_create_table up to the schema extraction (lines 83-135)
UploadExtract(r) ==
    /\ upPc[r].at = "start"
    /\ IF ~EndsWith(upReq[r].file.filename, ".csv")
       THEN /\ upRes' = [upRes EXCEPT ![r] =
                            UploadError(400, "Only CSV files are allowed")]
            /\ upPc' = [upPc EXCEPT ![r].at = "done"]
       ELSE LET schema_result ==
                    ExtractFromCsvResult(upReq[r].file.df, upReq[r].file.filename,
                                         OverridePk(upReq[r].primary_key),
                                         [given |-> FALSE, list |-> <<>>])
            IN  IF ExtractionFailed(schema_result)
                THEN /\ upRes' = [upRes EXCEPT ![r] =
                                     UploadError(400, schema_result.error)]
                     /\ upPc' = [upPc EXCEPT ![r].at = "done",
                                             ![r].schema_result = schema_result]
                ELSE /\ upRes' = upRes
                     /\ upPc' = [upPc EXCEPT
                                    ![r].at = "check",
                                    ![r].schema_result = schema_result,
                                    ![r].final_table_name =
                                        IF Truthy(upReq[r].table_name)
                                        THEN upReq[r].table_name
                                        ELSE schema_result.table_name]
    /\ UNCHANGED <<upReq, upDb, upSink, upProcs, ddlVars, qVars, hVars, fnVars, pfVars>>

\* a DROP for every replace, whether the table exists or not
MustDrop_EveryReplace(exists, if_exists) == if_exists = "replace"

\* if exists and if_exists == "replace" (line 151)
MustDrop(exists, if_exists) == exists /\ if_exists = "replace"

\* exists = table_exists(final_table_name) and the if_exists decision
\* (lines 137-145)
UploadCheckExists(r) ==
    /\ upPc[r].at = "check"
    /\ LET exists == table_exists(upDb, upPc[r].final_table_name) IN
       IF exists /\ upReq[r].if_exists = "fail"
       THEN /\ upRes' = [upRes EXCEPT ![r] =
                            UploadError(409, "Table '" \o upPc[r].final_table_name
                                             \o "' already exists.")]
            /\ upPc' = [upPc EXCEPT ![r].at = "done", ![r].exists = exists]
       ELSE /\ upRes' = upRes
            /\ upPc' = [upPc EXCEPT
                           ![r].exists = exists,
                           ![r].at = IF ~exists \/ upReq[r].if_exists = "replace"
                                     THEN IF MustDrop(exists, upReq[r].if_exists)
                                          THEN "drop" ELSE "create"
                                     ELSE "load"]
    /\ UNCHANGED <<upReq, upDb, upSink, upProcs, ddlVars, qVars, hVars, fnVars, pfVars>>

\* DROP TABLE IF EXISTS ... CASCADE, committed (lines 151-155)
UploadDrop(r) ==
    /\ upPc[r].at = "drop"
    /\ upSink' = Append(upSink,
                        UploadStmt(r, "DROP", upPc[r].final_table_name,
                                   "DROP TABLE IF EXISTS " \o upPc[r].final_table_name
                                   \o " CASCADE", {}))
    /\ upDb' = {t \in upDb : t.name # upPc[r].final_table_name}
    /\ upPc' = [upPc EXCEPT ![r].at = "create"]
    /\ UNCHANGED <<upReq, upRes, upProcs, ddlVars, qVars, hVars, fnVars, pfVars>>

\* data_loader.create_table_from_sql(create_sql) (lines 146-160)
UploadCreate(r) ==
    /\ upPc[r].at = "create"
    /\ LET create_sql == Replace(upPc[r].schema_result.create_sql,
                                 upPc[r].schema_result.table_name,
                                 upPc[r].final_table_name)
           accepted == upReq[r].create_ok /\ CreateIsValid(upPc[r].schema_result)
       IN  /\ upSink' = Append(upSink,
                               UploadStmt(r, "CREATE", upPc[r].final_table_name,
                                          create_sql, {}))
           /\ IF accepted
              THEN /\ upDb' = IF table_exists(upDb, upPc[r].final_table_name) THEN upDb
                              ELSE upDb \cup {CreatedTable(upPc[r].final_table_name,
                                                           upPc[r].schema_result)}
                   /\ upPc' = [upPc EXCEPT ![r].at = "load"]
                   /\ upRes' = upRes
              ELSE /\ upDb' = upDb
                   /\ upPc' = [upPc EXCEPT ![r].at = "done"]
                   /\ upRes' = [upRes EXCEPT ![r] = UploadError(500, "create failed")]
    /\ UNCHANGED <<upReq, upProcs, ddlVars, qVars, hVars, fnVars, pfVars>>

\* data_loader.load_csv_data and the response (lines 162-180)
UploadLoad(r) ==
    /\ upPc[r].at = "load"
    /\ upPc' = [upPc EXCEPT ![r].at = "done"]
    /\ LET name == upPc[r].final_table_name
           df == upReq[r].file.df
           raises == \/ ~table_exists(upDb, name)
                     \/ \E i \in 1..Len(df) : df[i].header = ""
           table == CHOOSE t \in upDb : t.name = name
           columns_to_insert ==
               {LoaderSanitizeColumnName(df[i].header) : i \in 1..Len(df)}
               \cap table.columns
       IN  IF raises
           THEN /\ upRes' = [upRes EXCEPT ![r] = UploadError(500, "load failed")]
                /\ UNCHANGED <<upDb, upSink>>
           ELSE IF columns_to_insert = {}
           THEN /\ upRes' = [upRes EXCEPT ![r] =
                                UploadError(500, "No matching columns.")]
                /\ UNCHANGED <<upDb, upSink>>
           ELSE /\ upSink' = Append(upSink,
                                    UploadStmt(r, "INSERT", name, "INSERT INTO " \o name,
                                               columns_to_insert))
                /\ IF upReq[r].load_ok
                   THEN /\ upDb' = (upDb \ {table})
                                   \cup {[table EXCEPT !.rows = @ \cup {RowsOf(r)}]}
                        /\ upRes' = [upRes EXCEPT ![r] =
                                        [kind |-> "ok", http |-> 200,
                                         detail |-> "CSV uploaded and processed successfully"]]
                   ELSE /\ upDb' = upDb
                        /\ upRes' = [upRes EXCEPT ![r] = UploadError(500, "load failed")]
    /\ UNCHANGED <<upReq, upProcs, ddlVars, qVars, hVars, fnVars, pfVars>>

\* upload_and_create_table is an async function whose only await is
\* "await file.read()" (line 87), before the schema extraction: in one event
\* loop a handler that went past it runs to its return before another
\* handler runs; handlers of different worker processes interleave freely
MayRun(r) ==
    \/ upProcs = "worker processes"
    \/ \A o \in Uploads \ {r} : upPc[o].at \in {"idle", "start", "done"}

NextUpload ==
    \E r \in Uploads :
        /\ MayRun(r)
        /\ \/ UploadExtract(r)
           \/ UploadCheckExists(r)
           \/ UploadDrop(r)
           \/ UploadCreate(r)
           \/ UploadLoad(r)

SpecUpload == InitUpload /\ [][NextUpload]_vars

\* requests that arrive at the same time for the same new table
ConcurrentRequests ==
    {req \in UploadRequests :
        /\ req.file.filename = "his.csv"
        /\ req.table_name = None
        /\ req.primary_key = None
        /\ req.create_ok}

\* two requests, one per handler, and an empty database
InitConcurrent ==
    /\ upReq \in [Uploads -> ConcurrentRequests]
    /\ upPc = [r \in Uploads |-> [NoUploadLocals EXCEPT !.at = "start"]]
    /\ upDb = {}
    /\ upSink = <<>>
    /\ upRes = [r \in Uploads |-> NoUploadResponse]
    /\ upProcs \in {"one event loop", "worker processes"}
    /\ IdleDDL
    /\ IdleQuery
    /\ IdleHeader
    /\ IdleFn
    /\ IdleProfile

SpecConcurrent == InitConcurrent /\ [][NextUpload]_vars

(***************************************************************************)
(* Claims about the DDL (SpecDDL)                                          *)
(***************************************************************************)
DdlSucceeded == ddlRes.called /\ ddlRes.success

\* the column definitions read back from the text of a CREATE TABLE statement
DefsOfCreateSql(create_sql, table_name) ==
    LET head == "CREATE TABLE IF NOT EXISTS " \o table_name \o " (\n    "
        body == SubSeq(create_sql, Len(head) + 1, Len(create_sql) - Len("\n);"))
    IN  Split(body, ",\n    ")

\* C1: extract_from_csv with override_primary_key = "" (explicit empty: the
\* caller wants no primary key) returns a create_sql with no PRIMARY KEY token
\* anywhere, so no synthetic "id SERIAL PRIMARY KEY" column either.
C1_ExplicitEmptyHasNoPrimaryKey ==
    (DdlSucceeded /\ ddlReq.override_primary_key = "")
        => ~Contains(ddlRes.create_sql, "PRIMARY KEY")

\* the case of C1: a successful call with the explicit-empty override
C1_Case ==
    DdlSucceeded /\ ddlReq.override_primary_key = "" /\ Len(ddlRes.columns) = 2

\* C2: extract_from_csv with override_primary_key = None (unspecified) returns
\* a create_sql whose first column definition is the synthetic
\* "id SERIAL PRIMARY KEY", placed before the definition of every profiled
\* column (which follow in profile order).
C2_UnspecifiedPrependsSyntheticId ==
    (DdlSucceeded /\ ddlReq.override_primary_key = None) =>
        LET defs == DefsOfCreateSql(ddlRes.create_sql, ddlRes.table_name) IN
        /\ defs[1] = "id SERIAL PRIMARY KEY"
        /\ Len(defs) = 1 + Len(ddlRes.columns) + Len(ddlRes.foreign_keys)
        /\ \A i \in 1..Len(ddlRes.columns) :
              StartsWith(defs[i + 1], ddlRes.columns[i].name \o " ")

\* the case of C2: no override, two profiled columns, one of them itself "id"
C2_Witness ==
    /\ DdlSucceeded
    /\ ddlReq.override_primary_key = None
    /\ Len(ddlRes.columns) = 2
    /\ ddlRes.columns[1].name = "id"
    /\ Contains(ddlRes.create_sql, "id SERIAL PRIMARY KEY,\n    id ")

\* C3: when the override names an existing column, create_sql holds exactly
\* one PRIMARY KEY token, on that column's definition, and no synthetic id.
C3_NamedOverrideExactlyOnePrimaryKey ==
    (DdlSucceeded /\ Truthy(ddlReq.override_primary_key)) =>
        LET defs == DefsOfCreateSql(ddlRes.create_sql, ddlRes.table_name) IN
        /\ Count(ddlRes.create_sql, "PRIMARY KEY") = 1
        /\ \E i \in 1..Len(ddlRes.columns) :
              /\ ddlRes.columns[i].name = ddlReq.override_primary_key
              /\ EndsWith(defs[i], " PRIMARY KEY")
        /\ ~Contains(ddlRes.create_sql, "id SERIAL")

\* the case of C3: a named override accepted for a two-column frame
C3_Case ==
    /\ DdlSucceeded
    /\ Truthy(ddlReq.override_primary_key)
    /\ Len(ddlRes.columns) = 2

(***************************************************************************)
(* Claims about the natural-language query paths (SpecQuery)               *)
(***************************************************************************)
QueryDone == qPc = "done"
GeneratedStatements == {i \in 1..Len(qSink) : qSink[i].generated}

\* C4: raw generator text with no SELECT token anywhere is rejected (the
\* request ends in a failure result) and no SQL derived from it is returned as
\* executable or sent to the sink, on the /query path and on the QueryService
\* path alike.
C4_NoSelectTextIsRejected ==
    (QueryDone /\ ~Contains(Upper(qReq.raw), "SELECT"))
        => /\ qRes.kind = "error"
           /\ qRes.sql = None
           /\ GeneratedStatements = {}

\* the case of C4: a completion without SELECT was answered on the service path
C4_Case ==
    /\ QueryDone
    /\ qReq.path = "service"
    /\ qReq.raw = "DROP TABLE his"
    /\ qGen.status = "ok"

\* C5: every generated SQL text a natural-language query handler executes on
\* the sink begins with SELECT (ignoring case and leading whitespace), the
\* join/cast and table-name rewrites included; when the handler's text does not
\* begin with SELECT it executes nothing.  (The handler's own
\* SET statement_timeout is not generated text.)
C5_ExecutedTextBeginsWithSelect ==
    /\ \A i \in GeneratedStatements :
          StartsWith(Upper(LStrip(qSink[i].stmt)), "SELECT")
    /\ (QueryDone /\ ~StartsWith(Upper(LStrip(qSql)), "SELECT")) => qSink = <<>>

\* the case of C5: a statement changed by the cast rewrite was executed
C5_Witness ==
    /\ QueryDone
    /\ qReq.path = "main"
    /\ GeneratedStatements # {}
    /\ qRes.warnings # <<>>
    /\ qSql # clean_sql_query(Strip(qReq.raw))

\* a row-limit clause: the keyword LIMIT as a word of the statement
HasLimitClause(sql) == Contains(Upper(sql), " LIMIT ")

ServiceAnswered == QueryDone /\ qReq.path = "service" /\ qRes.kind = "ok"

WholeWordOccurs(sql, w) ==
    \E i \in 1..(Len(sql) - Len(w) + 1) :
        /\ SubSeq(sql, i, i + Len(w) - 1) = w
        /\ (i = 1 \/ Char(sql, i - 1) \in {" ", "\""})
        /\ (i + Len(w) - 1 = Len(sql) \/ Char(sql, i + Len(w)) \in {" ", "\"", ";"})

TableSet(tables) == {tables[i] : i \in 1..Len(tables)}

\* C7: pluralization repair: every whole-word occurrence of a known table T
\* with a trailing s is rewritten to the quoted "T", SQL that references only
\* exact table names is left unchanged, and no longer identifier and no other
\* real table name is rewritten.
C7_PluralRepairWholeWordsOnly ==
    (ServiceAnswered /\ GeneratedStatements # {}) =>
        LET before == qRes.sql
            after == qSink[1].stmt
            known == TableSet(qReq.tables)
            plurals == {T \o "s" : T \in known} \ known
        IN  /\ \A w \in plurals : ~WholeWordOccurs(after, w)
            /\ (\A w \in plurals : ~WholeWordOccurs(before, w)) => after = before

\* the case of C7: a statement naming a longer identifier was executed
C7_Case ==
    /\ ServiceAnswered
    /\ GeneratedStatements # {}
    /\ qReq.tables = <<"his">>
    /\ Contains(qRes.sql, "FROM hissy")

\* C8: every normalization rewrite that changes the SQL text (join-column
\* correction, cast stripping, pluralization repair, row-cap injection) is
\* reported to the caller as a warning string in the response, and the
\* unmodified generator output is returned with the corrected query.
C8_RewritesAreReported ==
    (QueryDone /\ qRes.kind = "ok") =>
        LET rewritten ==
                IF qReq.path = "main"
                THEN qRes.sql # clean_sql_query(Strip(qReq.raw))
                ELSE \/ qRes.sql # extract_sql(qReq.raw)
                     \/ \E i \in GeneratedStatements : qSink[i].stmt # qRes.sql
        IN  rewritten =>
                /\ qRes.warnings # <<>>
                /\ (qRes.original_query # None \/ qRes.raw_llm_response # None)

\* the case of C8: the service path executed a repaired, capped statement
C8_Case ==
    /\ ServiceAnswered
    /\ GeneratedStatements # {}
    /\ qSink[1].stmt # extract_sql(qReq.raw)
    /\ Contains(qSink[1].stmt, "\"his\"")

(***************************************************************************)
(* Claims about header detection (SpecHeader)                              *)
(***************************************************************************)
\* the entries of scores that hold the maximum score
MaxEntries ==
    {k \in 1..Len(hRes.scores) :
        \A j \in 1..Len(hRes.scores) : hRes.scores[j].score <= hRes.scores[k].score}

\* C9: among all eligible lines (non-blank, at least 2 cells) of the preview,
\* _detect_header_row returns the one with the maximum raw score, and when
\* several lines share the maximum score it returns the one with the lowest
\* row index.
C9_MaxScoreLowestIndexWins ==
    (hRes.called /\ \E i \in 0..(Len(hLines) - 1) : Eligible(hLines, i)) =>
        /\ {hRes.scores[k].row : k \in 1..Len(hRes.scores)}
               = {i \in 0..(Len(hLines) - 1) : Eligible(hLines, i)}
        /\ \E k \in MaxEntries :
              /\ hRes.scores[k].row = hRes.row
              /\ \A j \in MaxEntries : hRes.scores[j].row >= hRes.row

\* the case of C9: several eligible lines share the maximum score and the
\* returned one is not the first eligible line
C9_TieCase ==
    /\ hRes.called
    /\ Cardinality(MaxEntries) >= 2
    /\ hRes.scores[1].row < hRes.row
    /\ \E k \in MaxEntries : hRes.scores[k].row > hRes.row

\* the line has exactly one cell
IsBanner(line) ==
    /\ Strip(line) # ""
    /\ CsvRow(line).ok
    /\ Len(CsvRow(line).row) = 1

\* a header of at least 2 non-empty, non-numeric cells, one of them with a
\* domain keyword
IsKeywordHeader(line) ==
    LET r == CsvRow(line) IN
    /\ r.ok
    /\ Len(r.row) >= 2
    /\ \A j \in 1..Len(r.row) : Strip(r.row[j]) # "" /\ ~IsNumericCell(r.row[j])
    /\ \E j \in 1..Len(r.row) : HasKeyword(r.row[j])

\* a data row of ncells cells with a numeric cell and no keyword or underscore
IsDataRow(line, ncells) ==
    LET r == CsvRow(line) IN
    /\ Strip(line) # ""
    /\ r.ok
    /\ Len(r.row) = ncells
    /\ \E j \in 1..Len(r.row) : IsNumericCell(r.row[j])
    /\ \A j \in 1..Len(r.row) : ~HasKeyword(r.row[j]) /\ ~HasUnderscore(r.row[j])

\* banner, header, then data rows (at least one) up to the end of the preview
BannerThenHeader(lines) ==
    /\ Len(lines) >= 3
    /\ IsBanner(lines[1])
    /\ IsKeywordHeader(lines[2])
    /\ \A k \in 3..Len(lines) : IsDataRow(lines[k], Len(CsvRow(lines[2]).row))

\* C10: for any input whose line 0 is a single-cell banner, whose line 1 is a
\* header of at least 2 non-empty, non-numeric cells with at least one cell
\* containing a domain keyword, and whose following lines are data rows of
\* the same cell count that contain a numeric cell and no keyword or
\* underscore, header detection returns row 1 with confidence above 50% and
\* a reasoning text mentioning header keywords and/or no empty columns.
C10_BannerThenHeaderPicksRowOne ==
    (hRes.called /\ BannerThenHeader(hLines)) =>
        /\ hRes.row = 1
        /\ hRes.confidence15 > 50 * max_possible_score
        /\ \/ Contains(hRes.reasoning, "header keywords")
           \/ Contains(hRes.reasoning, "No empty columns")

\* the case of C10: the header detection ran on a banner, a header without
\* underscores and two data rows
C10_Case ==
    /\ hRes.called
    /\ BannerThenHeader(hLines)
    /\ hLines[2] = "id,x"
    /\ Len(hLines) = 4

(***************************************************************************)
(* Claims about the VARCHAR ladder (SpecVarchar)                           *)
(***************************************************************************)
Ladder == {50, 100, 255, 500, 1000, 2000}

\* C11: for every observed maximum string length L of a VARCHAR column, the
\* length emitted in the DDL is the smallest value of the ladder
\* {50,100,255,500,1000,2000} that is greater than or equal to L, so the
\* declared VARCHAR(n) is never shorter than the longest value of the column.
C11_SmallestLadderValueNotBelowLength ==
    fnOut.called =>
        /\ fnOut.r1 \in Ladder
        /\ fnOut.r1 >= fnArg.l1
        /\ \A m \in Ladder : m >= fnArg.l1 => fnOut.r1 <= m
        /\ fnOut.col_def = "c VARCHAR(" \o IntToStr(fnOut.r1) \o ")"

\* the case of C11: a column whose longest value is longer than the last step
C11_Case ==
    /\ fnOut.called
    /\ fnArg.l1 = 2001
    /\ fnOut.col_def = "c VARCHAR(2000)"

\* C12: for all string lengths L1 < L2,
\* _round_varchar_length(L1) <= _round_varchar_length(L2).
C12_LadderIsMonotone ==
    (fnOut.called /\ fnArg.l1 < fnArg.l2) => fnOut.r1 <= fnOut.r2

\* the case of C12: two lengths on either side of a step of the ladder
C12_Witness ==
    /\ fnOut.called
    /\ fnArg.l1 = 255
    /\ fnArg.l2 = 256
    /\ fnOut.r1 < fnOut.r2

(***************************************************************************)
(* Claims about column-name sanitization (SpecSanitize)                    *)
(***************************************************************************)
\* C13: for every input string (including the empty string, names starting
\* with a digit, and names equal in any letter case to a reserved keyword),
\* _sanitize_column_name terminates with a result and
\* _sanitize_column_name(_sanitize_column_name(name)) equals
\* _sanitize_column_name(name).
C13_SanitizeReturnsAndIsIdempotent ==
    fnOut.called =>
        /\ ~fnOut.raised
        /\ fnOut.twice = fnOut.once

\* the case of C13: the empty header
C13_Case ==
    /\ fnOut.called
    /\ fnArg = ""
    /\ fnOut.raised

(***************************************************************************)
(* Claims about the profiler and the key choice (SpecProfile)              *)
(***************************************************************************)
NonNullCount(values) == Len(NonNull(values))

\* C14: for every column reported by the profiler and by the
\* column-statistics operation, null_count + non_null_count equals the total
\* row count, and a column with zero non-null values (an all-null column, or
\* any column of a zero-row frame) is never reported as unique (is_unique /
\* unique) nor as suitable_for_pk.
C14_NullAccountingAndEmptyNotUnique ==
    /\ pfRes.profiled =>
         \A i \in 1..Len(pfReq) :
            /\ pfRes.columns[i].null_count + NonNullCount(pfReq[i].values)
                  = pfRes.row_count
            /\ NonNullCount(pfReq[i].values) = 0 => ~pfRes.columns[i].unique
    /\ pfRes.counted =>
         \A i \in 1..Len(pfReq) :
            LET st == pfRes.column_stats[i] IN
            /\ st.non_null_count = NonNullCount(pfReq[i].values)
            /\ st.null_count + st.non_null_count = st.total_rows
            /\ st.non_null_count = 0 => ~st.is_unique /\ ~st.suitable_for_pk

\* the case of C14: the statistics of a column of missing cells only, in a
\* frame with rows
C14_Case ==
    /\ pfRes.counted
    /\ pfRes.row_count = MaxRows
    /\ \E i \in 1..Len(pfReq) :
          /\ pfRes.column_stats[i].null_count = MaxRows
          /\ pfRes.column_stats[i].is_unique

\* C15: a column whose sampled non-null values are all integral is classified
\* INTEGER when the maximum absolute magnitude over those values is at most
\* 2,147,483,647 and BIGINT when any value's absolute magnitude exceeds it
\* (also for large negative values and for integral columns that contain
\* nulls); a column with any fractional value is classified FLOAT.
C15_NumericClassification ==
    pfRes.profiled =>
        \A i \in 1..Len(pfReq) :
            LET nums == NonNull(pfReq[i].values)
                sql_type == pfRes.columns[i].sql_type
            IN  (Len(nums) > 0 /\ \A k \in 1..Len(nums) : nums[k].kind = "num") =>
                    IF \A k \in 1..Len(nums) : IsIntegral(nums[k])
                    THEN IF \E k \in 1..Len(nums) : AbsExceedsInt32(nums[k])
                         THEN sql_type = "BIGINT"
                         ELSE sql_type = "INTEGER"
                    ELSE sql_type = "FLOAT"

\* the case of C15: a column of whole numbers with a large negative value
C15_Case ==
    /\ pfRes.profiled
    /\ \E i \in 1..Len(pfReq) :
          /\ pfReq[i].values = <<NumCell(TRUE, 3, 0, 0), NumCell(FALSE, 0, 1, 0)>>
          /\ pfRes.columns[i].sql_type = "INTEGER"

\* the key the rules (a) to (d) choose among the profiled columns
RuleKey(columns) ==
    LET cols == 1..Len(columns)
        named_id == {i \in cols : columns[i].name = "id" /\ columns[i].unique}
        unique_whole == {i \in cols : /\ columns[i].unique
                                      /\ ~columns[i].nullable
                                      /\ columns[i].sql_type \in {"INTEGER", "BIGINT"}}
        unique_any == {i \in cols : columns[i].unique /\ ~columns[i].nullable}
    IN  IF named_id # {} THEN FirstColumn(columns, named_id)
        ELSE IF unique_whole # {} THEN FirstColumn(columns, unique_whole)
        ELSE FirstColumn(columns, unique_any)

\* C17: with no primary-key override, the primary key is chosen by these
\* rules in order: (a) a column named exactly id that is unique; else (b) the
\* first unique, non-null column of type INTEGER or BIGINT; else (c) the
\* first unique, non-null column of any type; else (d) no suitable column, in
\* which case a synthetic surrogate key is added.  In particular a unique
\* non-null BIGINT column is preferred over a unique non-null text column
\* that precedes it.
C17_KeyChosenByRules ==
    pfRes.profiled =>
        /\ pfRes.primary_key = RuleKey(pfRes.columns)
        /\ pfRes.detected_key = RuleKey(pfRes.columns)
        /\ Contains(pfRes.create_sql, "id SERIAL PRIMARY KEY")
              <=> RuleKey(pfRes.columns) = None

\* the case of C17: a unique text column before a unique BIGINT column
C17_Case ==
    /\ pfRes.profiled
    /\ Len(pfReq) = 2
    /\ pfRes.columns[1].sql_type = "VARCHAR" /\ pfRes.columns[1].unique
    /\ ~pfRes.columns[1].nullable
    /\ pfRes.columns[2].sql_type = "BIGINT" /\ pfRes.columns[2].unique
    /\ ~pfRes.columns[2].nullable
    /\ pfRes.columns[2].name = "b"
    /\ pfRes.detected_key = "a"
    /\ pfRes.primary_key = None

(***************************************************************************)
(* Claims about the upload operation (SpecUpload)                          *)
(***************************************************************************)
\* the names of the columns extract_from_csv profiles from the request's file
ProfiledNames(req) ==
    {SanitizeColumnName(req.file.df[i].header) : i \in 1..Len(req.file.df)}

\* the request names a primary-key column that is not a profiled column
NamesUnknownKey(req) ==
    /\ Truthy(OverridePk(req.primary_key))
    /\ OverridePk(req.primary_key) \notin ProfiledNames(req)

\* the handlers that were given a request
Serving == {r \in Uploads : upPc[r].at # "idle"}

\* the statements handler r issued
StmtsBy(r) == {i \in 1..Len(upSink) : upSink[i].by = r}

\* C16: when a primary-key override names a column that is not among the
\* profiled columns, extract_from_csv returns a structured failure
\* (success=false) whose error names the invalid value and produces no DDL,
\* and the upload operation then fails without issuing any DROP, CREATE or
\* INSERT against the sink.
C16_UnknownKeyFailsBeforeTheSink ==
    \A r \in Serving :
        (upPc[r].at # "start"
         /\ EndsWith(upReq[r].file.filename, ".csv")
         /\ NamesUnknownKey(upReq[r])) =>
            /\ ~upPc[r].schema_result.success
            /\ Contains(upPc[r].schema_result.error,
                        "'" \o OverridePk(upReq[r].primary_key) \o "'")
            /\ upPc[r].schema_result.create_sql = ""
            /\ upPc[r].at = "done"
            /\ upRes[r].kind = "error"
            /\ StmtsBy(r) = {}

\* the case of C16: an unknown key for a table that exists, with replace
C16_Witness ==
    /\ upPc[1].at = "done"
    /\ upReq[1].primary_key = "zz"
    /\ upReq[1].if_exists = "replace"
    /\ upReq[1].table_name = None
    /\ OldTable("his") \in upDb
    /\ upRes[1].http = 400
    /\ upPc[1].schema_result.called

\* handler r has made its existence check and found the table
FoundTable(r) == upPc[r].at \notin {"idle", "start", "check"} /\ upPc[r].exists

OpsBy(r) == {upSink[i].op : i \in StmtsBy(r)}

C23_AppendCase ==
    /\ FoundTable(1)
    /\ upReq[1].if_exists = "append"
    /\ upRes[1].kind = "ok"
    /\ OpsBy(1) = {"INSERT"}

\* the schema extraction of handler r succeeded
Extracted(r) ==
    /\ upPc[r].at \notin {"idle", "start"}
    /\ upPc[r].schema_result.success

HasSyntheticKey(create_sql) == Contains(create_sql, "id SERIAL PRIMARY KEY")

\* C24: upload API primary_key parameter: submitting primary_key as the empty
\* string creates the table with no primary key (no synthetic id column, no
\* PRIMARY KEY clause), distinct from omitting the parameter, which creates
\* the synthetic auto-increment key; the three states unspecified / explicit
\* none / named column are kept distinct from the request to the DDL.
C24_EmptyKeyMeansNoKey ==
    \A r \in Serving :
        Extracted(r) =>
            LET create_sql == upPc[r].schema_result.create_sql IN
            /\ upReq[r].primary_key = "" =>
                  /\ upPc[r].schema_result.primary_key = ""
                  /\ ~Contains(create_sql, "PRIMARY KEY")
            /\ upReq[r].primary_key = None => HasSyntheticKey(create_sql)
            /\ upReq[r].primary_key \in {"a", "a_b"} =>
                  upPc[r].schema_result.primary_key = upReq[r].primary_key

\* the case of C24: a table created for a request with primary_key ""
C24_Case ==
    /\ upReq[1].primary_key = ""
    /\ Extracted(1)
    /\ "CREATE" \in OpsBy(1)
    /\ upRes[1].kind = "ok"

\* omitted and named keys reach the DDL as stated
C24_OmittedAndNamed ==
    \A r \in Serving :
        Extracted(r) =>
            /\ upReq[r].primary_key = None =>
                  HasSyntheticKey(upPc[r].schema_result.create_sql)
            /\ upReq[r].primary_key \in {"a", "a_b"} =>
                  upPc[r].schema_result.primary_key = upReq[r].primary_key

\* handler r created the table and then loaded its file with success
CreatedThenLoaded(r) ==
    /\ upPc[r].at = "done"
    /\ upRes[r].kind = "ok"
    /\ "CREATE" \in OpsBy(r)

\* C28: for every CSV column header, the destination column name computed by
\* the loader equals the column name emitted in the DDL, so after
\* create-then-load every column defined from the file receives that file's
\* data and no source column is silently left out of the insert (including
\* headers that are reserved keywords such as order or group).
C28_LoaderNamesAreDdlNames ==
    \A r \in Serving :
        /\ upPc[r].at # "start" =>
              \A i \in 1..Len(upReq[r].file.df) :
                  LoaderSanitizeColumnName(upReq[r].file.df[i].header)
                      = SanitizeColumnName(upReq[r].file.df[i].header)
        /\ CreatedThenLoaded(r) =>
              \A i \in StmtsBy(r) :
                  upSink[i].op = "INSERT" =>
                      ProfiledNames(upReq[r]) \subseteq upSink[i].columns

\* the case of C28: a file with a header Order was created and loaded
C28_Case ==
    /\ CreatedThenLoaded(1)
    /\ \E i \in 1..Len(upReq[1].file.df) : upReq[1].file.df[i].header = "Order"
    /\ \E i \in StmtsBy(1) : upSink[i].op = "INSERT" /\ upSink[i].columns = {"a"}

\* handler r answered with an error
UploadFailed(r) == upPc[r].at = "done" /\ upRes[r].kind = "error"

\* C29: an upload request that fails at any step (schema extraction, table
\* creation or data load) leaves the sink as it was before the request: with
\* if_exists='replace' on an existing table, a failure of CREATE or of the
\* load after the DROP does not lose the previous table and its rows, and a
\* failed load does not leave behind a newly created empty table.
C29_FailedUploadLeavesSinkUnchanged ==
    \A r \in Serving :
        UploadFailed(r) =>
            /\ upDb \subseteq ExistingTables
            /\ \A i \in StmtsBy(r) :
                  upSink[i].op = "DROP" => OldTable(upSink[i].table) \in upDb

\* the case of C29: CREATE failed after the DROP of the previous table
C29_Case ==
    /\ UploadFailed(1)
    /\ upReq[1].if_exists = "replace"
    /\ OpsBy(1) = {"DROP", "CREATE"}
    /\ upRes[1].http = 500

\* the other case of C29: the load failed after the CREATE of a new table
C29_EmptyTableCase ==
    /\ UploadFailed(1)
    /\ "CREATE" \in OpsBy(1)
    /\ \E t \in upDb : t.rows = {}

(***************************************************************************)
(* Claims about concurrent uploads (SpecConcurrent)                        *)
(***************************************************************************)
BothDone == \A r \in Uploads : upPc[r].at = "done"
BothFailIfExists == \A r \in Uploads : upReq[r].if_exists = "fail"
Succeeded == {r \in Uploads : upRes[r].kind = "ok"}
\* the handlers that failed for a reason of their own (extraction, CREATE,
\* load), not for the conflict
OwnFailures == {r \in Uploads : upRes[r].http \in {400, 500}}

\* C30: for two concurrent upload requests with if_exists='fail' that target
\* the same, not yet existing table name, under every interleaving of their
\* existence check, CREATE and load steps, at most one request succeeds and
\* the other fails with the table-exists conflict; the table never ends up
\* holding the rows of both files.
C30_AtMostOneConcurrentUploadSucceeds ==
    BothFailIfExists =>
        /\ BothDone =>
              /\ Cardinality(Succeeded) <= 1
              /\ OwnFailures = {} => \E r \in Uploads : upRes[r].http = 409
        /\ \A t \in upDb : ~({RowsOf(1), RowsOf(2)} \subseteq t.rows)

\* the case of C30: both handlers made their existence check before either
\* CREATE, and both loaded
C30_Case ==
    /\ upProcs = "worker processes"
    /\ BothFailIfExists
    /\ BothDone
    /\ \A r \in Uploads : ~upPc[r].exists /\ "INSERT" \in OpsBy(r)
    /\ Succeeded = Uploads

\* handlers of one event loop: the claim holds
C30_InOneEventLoop ==
    (BothFailIfExists /\ upProcs = "one event loop") =>
        /\ BothDone =>
              /\ Cardinality(Succeeded) <= 1
              /\ OwnFailures = {} => \E r \in Uploads : upRes[r].http = 409
        /\ \A t \in upDb : ~({RowsOf(1), RowsOf(2)} \subseteq t.rows)

\* one after the other: the second request gets the conflict
C30_SequentialCase ==
    /\ BothFailIfExists
    /\ BothDone
    /\ upRes[1].kind = "ok"
    /\ upRes[2].http = 409

(***************************************************************************)
(* Claims about generator failures (SpecQuery)                             *)
(***************************************************************************)
OnMainPath == qReq.path = "main"

\* a further call of the generator, after at least one call was made
CallsAgain == qGen'.calls > qGen.calls /\ qGen.calls >= 1

\* C18: the /query endpoint calls the generator at most max_retries = 2 times
\* per request, and a further call is made only after a timeout: a connection
\* failure, a non-200 status or any other non-timeout error is never followed
\* by another generator call.
C18_RetryOnlyAfterTimeout ==
    /\ [](OnMainPath => qGen.calls <= max_retries)
    /\ [][(OnMainPath /\ CallsAgain)
             => qGen.last_error = "Timeout after 120 seconds"]_vars

\* the case of C18: two calls, the first answered with a non-200 status, the
\* second ended by an error that is not a timeout
C18_Case ==
    /\ OnMainPath
    /\ qGen.calls = max_retries
    /\ qGen.status = "bad_status"
    /\ qGen.last_error = "Unexpected error"

\* the causes of a generation failure on the /query path
AllTimedOut == OnMainPath /\ QueryDone /\ qRes.raised = 504
Unreachable == OnMainPath /\ QueryDone /\ qRes.raised = 503
EmptyCompletion ==
    OnMainPath /\ QueryDone /\ qGen.status = "ok" /\ Strip(qReq.raw) = ""

\* C19: generation failures are distinguishable by cause: when every attempt
\* timed out the request ends with HTTP 504, an unreachable generator ends
\* with HTTP 503, an empty completion ends with an outcome of its own; no two
\* of these causes share the final outcome classification.
C19_FailuresDistinguishedByStatus ==
    /\ AllTimedOut => qRes.http = 504
    /\ Unreachable => qRes.http = 503
    /\ EmptyCompletion => qRes.kind = "error" /\ qRes.http \notin {503, 504}

\* the case of C19: max_retries calls, every one timed out
C19_Case ==
    /\ AllTimedOut
    /\ qGen.calls = max_retries
    /\ qGen.last_error = "Timeout after 120 seconds"
    /\ qRes.kind = "error"

\* the generator answered with nothing but white space
EmptyAnswer ==
    /\ QueryDone
    /\ qGen.status = "ok"
    /\ qGen.calls >= 1
    /\ Strip(qReq.raw) = ""

\* C20: an empty or whitespace-only completion makes the request fail and no
\* SQL is sent to the sink, on the /query path of main.py and on the
\* QueryService path.
C20_EmptyCompletionFails ==
    EmptyAnswer =>
        /\ qRes.kind = "error"
        /\ ~qRes.success
        /\ GeneratedStatements = {}

\* the case of C20: QueryService executes what it made of an empty completion
C20_Case ==
    /\ EmptyAnswer
    /\ qReq.path = "service"
    /\ qReq.execute
    /\ GeneratedStatements # {}

\* on the /query path an empty completion is refused before the sink
C20_MainPathRefuses ==
    (EmptyAnswer /\ OnMainPath) => qRes.kind = "error" /\ qSink = <<>>

(***************************************************************************)
(* Claims about the execution of generated SQL (SpecQuery)                 *)
(***************************************************************************)
\* statement number i of the sink log is preceded, on the same connection,
\* by the statement that sets the timeout
TimeoutInForce(i) ==
    \E j \in 1..(i - 1) : qSink[j].stmt = "SET statement_timeout = 30000"

\* C21: on every path that executes generated SQL against the sink, a
\* server-side statement timeout is set on the same connection before the
\* generated statement is executed; no generated statement is ever executed
\* on a connection without the timeout in force.
C21_TimeoutBeforeGeneratedStatement ==
    \A i \in GeneratedStatements : TimeoutInForce(i)

\* the case of C21: QueryService executed a generated statement
C21_Case ==
    /\ QueryDone
    /\ qReq.path = "service"
    /\ GeneratedStatements # {}
    /\ qRes.executed = "true"

\* on the /query path of main.py the timeout is set first
C21_MainPathSetsTimeout ==
    OnMainPath => \A i \in GeneratedStatements : TimeoutInForce(i)

\* query_from_natural_language returned after the sink or the SELECT-only
\* check refused the statement
ServiceRefusedStatement ==
    /\ QueryDone
    /\ qReq.path = "service"
    /\ qReq.execute
    /\ qRes.executed = "false"

\* C22: when the sink rejects the generated SQL (or the SELECT-only check
\* refuses it), query_from_natural_language returns a structured failure: the
\* result has success=false and carries the error text, so no result with
\* success=true ever carries an execution error or executed=false.
C22_RefusedStatementIsAFailure ==
    /\ ServiceRefusedStatement => ~qRes.success /\ qRes.error # ""
    /\ (qReq.path = "service" /\ qRes.success)
          => qRes.error = "" /\ qRes.executed # "false"

\* the case of C22: the sink rejected the statement QueryService sent
C22_Case ==
    /\ ServiceRefusedStatement
    /\ ~qReq.sink_ok
    /\ GeneratedStatements # {}
    /\ qRes.error = "Query execution failed"

\* QueryService executed a statement and answered
ServiceExecuted ==
    /\ ServiceAnswered
    /\ qReq.execute
    /\ GeneratedStatements # {}

\* C27: in QueryService.query_from_natural_language with execute=true, the
\* SQL text returned in the response field sql is exactly the SQL text that
\* was executed against the sink (the table-name repair applied before
\* execution is reflected in the reported SQL).
C27_ReportedSqlIsExecutedSql ==
    ServiceExecuted =>
        \A i \in GeneratedStatements : qSink[i].stmt = qRes.sql

\* the case of C27: the table-name repair changed the statement
C27_Case ==
    /\ ServiceExecuted
    /\ qRes.executed = "true"
    /\ fix_table_names_in_sql(qRes.sql, qReq.tables) # qRes.sql

(***************************************************************************)
(* Claims about the raw score of a line (SpecScore)                        *)
(***************************************************************************)
\* the up-to-4 non-blank lines that follow the line at 0-based index i
FollowingNonBlank(lines, i) ==
    LET rest == SelectSeq(SubSeq(lines, i + 2, Len(lines)),
                          LAMBDA r : Strip(r) # "")
    IN  SubSeq(rest, 1, IF Len(rest) > 4 THEN 4 ELSE Len(rest))

\* the raw score the statement gives the line at 0-based index i
StatedScore(lines, i) ==
    LET row == CsvRow(lines[i + 1]).row
        cells == 1..Len(row)
        ahead == FollowingNonBlank(lines, i)
        same == Cardinality({k \in 1..Len(ahead) :
                                Len(CsvRow(ahead[k]).row) = Len(row)})
    IN  2 * Cardinality({j \in cells : HasKeyword(row[j])})
        + (IF \A j \in cells : ~IsNumericCell(row[j]) THEN 3 ELSE 0)
        + (IF \A j \in cells : Strip(row[j]) # "" THEN 2 ELSE 0)
        + Cardinality({j \in cells : HasUnderscore(row[j])})
        + (IF ahead # <<>> /\ same * 10 >= Len(ahead) * 8 THEN 3 ELSE 0)
        - (IF i = 0 THEN 1 ELSE 0)

\* C25: for every eligible line at index i the raw score equals 2 x (cells
\* containing a domain keyword) + 3 if every cell fails to parse as a plain
\* number + 2 if every cell is non-blank after trimming + (cells containing
\* an underscore) + 3 if at least 80% of the up-to-4 subsequent non-blank
\* lines have the same cell count - 1 if i = 0; the look-ahead considers the
\* next 4 non-blank lines (blank lines do not use up the window) and a line
\* with no following non-blank line gets no consistency bonus.
C25_ScoreIsTheStatedSum ==
    hRes.called =>
        \A k \in 1..Len(hRes.scores) :
            hRes.scores[k].score = StatedScore(hLines, hRes.scores[k].row)

\* the case of C25: a blank line inside the window of line 0 pushes a line
\* of another cell count out of it
C25_Case ==
    /\ hRes.called
    /\ hLines = <<"bill_id,x", "", "bill_id,x", "bill_id,x", "bill_id,x", "1,2,3">>
    /\ \E k \in 1..Len(hRes.scores) : hRes.scores[k].row = 0

\* without blank lines in the preview the score is the stated sum
C25_NoBlankLines ==
    (hRes.called /\ \A n \in 1..Len(hLines) : hLines[n] # "") =>
        \A k \in 1..Len(hRes.scores) :
            hRes.scores[k].score = StatedScore(hLines, hRes.scores[k].row)

(***************************************************************************)
(* Claims about the join correction (SpecQuery)                            *)
(***************************************************************************)
\* the statement /query handed to validate_and_fix_sql
CleanedSql == clean_sql_query(Strip(qReq.raw))

\* the text joins his and ris on a surrogate key, in any letter case
JoinsOnSurrogateKey(sql) ==
    /\ Contains(Upper(sql), "JOIN RIS ON")
    /\ Contains(Lower(sql), "ris.id") \/ Contains(Lower(sql), "his.id")

MainAnswered == QueryDone /\ OnMainPath /\ qRes.kind = "ok"

\* C26: whenever the cleaned SQL joins his and ris with a condition that
\* references the surrogate key (ris.id or his.id, in any letter case),
\* validate_and_fix_sql returns a query in which that reference is replaced
\* by the natural key column (ris.patient_id, his.bill_id) together with a
\* warning; and a warning is returned only if the returned query differs
\* from the input.
C26_JoinOnSurrogateKeyIsCorrected ==
    MainAnswered =>
        LET fixed == validate_and_fix_sql(CleanedSql) IN
        /\ qRes.sql = fixed.fixed_query
        /\ JoinsOnSurrogateKey(CleanedSql) =>
              /\ ~Contains(Lower(fixed.fixed_query), "ris.id")
              /\ ~Contains(Lower(fixed.fixed_query), "his.id")
              /\ fixed.warnings # <<>>
        /\ fixed.warnings # <<>> => fixed.fixed_query # CleanedSql

\* the case of C26: a join on his.id = ris.id was executed
C26_Case ==
    /\ MainAnswered
    /\ JoinsOnSurrogateKey(CleanedSql)
    /\ Contains(CleanedSql, "his.id = ris.id")
    /\ GeneratedStatements # {}

\* the first half of C26 alone: the join correction
C26_OnlyTheCorrection ==
    (MainAnswered /\ JoinsOnSurrogateKey(CleanedSql)) =>
        ~Contains(Lower(qRes.sql), "ris.id")

====
